---- MODULE Spec2Model ----
(***************************************************************************)
(* State-machine model of mcp-debug-hub: the session registry              *)
(* (managers/sessions.ts), the tool handlers that run behind the request   *)
(* serializer (mcp/tools/*.ts) and the debug engine they talk to           *)
(* (vscode.debug), seen as an environment that starts and terminates       *)
(* sessions, answers requests and moves the active session.                *)
(*                                                                         *)
(* Every await of a handler is a step boundary: the code between two       *)
(* awaits is one action.  An engine event runs all its subscribers in one  *)
(* action, in subscription order.                                          *)
(***************************************************************************)
EXTENDS Integers, Sequences, FiniteSets, TLC

\* ------------------------------------------------------------------ bounds
MaxSessions == 2      \* debug sessions the engine may ever create
MaxCalls == 3         \* tool calls the clients may ever issue

SessionIds == 1..MaxSessions
Calls == 1..MaxCalls

\* --------------------------------------------------------- program values
Null == -1            \* JavaScript null / undefined
EmptyStr == 0         \* the empty string "" (a string, but falsy)
WaitTimeoutMs == 10000

Truthy(x) == x /= Null /\ x /= EmptyStr

LaunchTools == {"launch_debug", "launch_child_debug"}
ExecutionTools ==
  {"continue_execution", "pause_execution", "step_over", "step_into", "step_out"}
InspectionTools ==
  {"evaluate_expression", "list_threads", "get_stack_frames", "get_variables"}
SessionTargetTools == ExecutionTools \cup InspectionTools \cup {"get_current_location"}

\* Inputs of the tool calls.  Without a workspace folder there is no
\* configuration list to read.
\* A sessionId argument is absent or the id of some session, tracked or not.
SessionIdArgs == {Null} \cup SessionIds
RequestedNames == {"app"}
ConfigLists == {<<>>, <<"worker">>, <<"web", "worker">>, <<"app", "worker">>}
Files == {"a.py"}
Lines == {1}

VARIABLES
  sessions,      \* Sessions.sessions: the Map, as its entries in insertion order
  engine,        \* vscode.debug: per session its status and parent session
  active,        \* vscode.debug.activeDebugSession
  breakpoints,   \* vscode.debug.breakpoints
  locked,        \* Mutex: the gate is held
  queue,         \* Mutex: callers waiting for the gate, oldest first
  guard,         \* instrumentation: bodies between acquiring and releasing
  pc,            \* per tool call: where its handler is
  call,          \* per tool call: arguments and what the body observed so far
  waiter,        \* per tool call: the waitForSession() listener, timer, promise
  lastResult,    \* the result of the call that finished last, kept until
                 \* the next body goes on to its first await
  storeOp,       \* the last operation on the breakpoint store: its arguments,
                 \* the engine's list before it, and whether it threw
  dbg,           \* the debuggee of the target session: its threads as the
                 \* adapter reports them, and whether the threads query fails
  insp,          \* an inspection call past its session resolution: where it
                 \* is, the requests it issued, its result
  activeConnections,  \* HttpMcpServer.activeConnections: the ids in the Map
  conn,          \* per connection id: where handleGet is, the state of its
                 \* response stream, whether the listeners are registered
  lastPost,      \* the last POST handled: its sessionId and what it got
  server,        \* HttpMcpServer: isRunning, whether httpServer listens,
                 \* where stop() is and which connections it tried to close
  event,         \* the session event the registry's subscriber handled last
  origin,        \* per tool call: the connection whose POST carried it
  stk,           \* a get_stack_frames call past its session resolution
  life,          \* HttpMcpServer: isRunning and the state of its httpServer
  cmd            \* the activation and the start/stop/restart commands in flight

\* The variables of the calls and commands followed on their own.
yvars == <<stk, life, cmd>>

\* The variables outside the registry, the serializer and the tool calls.
xvars ==
  <<storeOp, dbg, insp, activeConnections, conn, lastPost, server, event, origin,
    yvars>>

vars ==
  <<sessions, engine, active, breakpoints, locked, queue, guard, pc, call,
    waiter, lastResult, xvars>>


\* ------------------------------------------------- the session registry
\* Map.has / Map.get over the entries of the session map.
Has(m, id) == \E i \in 1..Len(m) : m[i].id = id

IndexOf(m, id) == CHOOSE i \in 1..Len(m) : m[i].id = id

Get(m, id) == m[IndexOf(m, id)]

TrackedIds(m) == {m[i].id : i \in 1..Len(m)}

\* Array.filter((id) => id !== sessionId)
Without(seq, x) == SelectSeq(seq, LAMBDA y : y /= x)

\* An addSession without the has() check at its top.
AddSession_NoHasCheck(m, id, parentId) ==
  LET node == [id |-> id, parent |-> parentId, children |-> <<>>,
               state |-> "running"]
      m1 == Append(m, node)
  IN IF Truthy(parentId) /\ Has(m, parentId)
     THEN [m1 EXCEPT ![IndexOf(m, parentId)].children = Append(@, id)]
     ELSE m1

\* An addSession that pushes the id to the parent's children before it
\* looks whether the id is tracked.
AddSession_PushFirst(m, id, parentId) ==
  LET pushed == IF Truthy(parentId) /\ Has(m, parentId)
                THEN [m EXCEPT ![IndexOf(m, parentId)].children = Append(@, id)]
                ELSE m
  IN IF Has(m, id) THEN pushed
     ELSE LET node == [id |-> id, parent |-> parentId, children |-> <<>>,
                       state |-> "running"]
          IN Append(pushed, node)

\* An addSession that inserts the node in state "launching".
AddSession_Launching(m, id, parentId) ==
  IF Has(m, id) THEN m
  ELSE
    LET node == [id |-> id, parent |-> parentId, children |-> <<>>,
                 state |-> "launching"]
        m1 == Append(m, node)
    IN IF Truthy(parentId) /\ Has(m1, parentId)
       THEN [m1 EXCEPT ![IndexOf(m1, parentId)].children = Append(@, id)]
       ELSE m1

\* Sessions.addSession: a tracked id is left alone; otherwise the node is
\* inserted with the engine-supplied parent and, when that parent is
\* tracked, the id is pushed to the parent's children.
AddSession(m, id, parentId) ==
  IF Has(m, id) THEN m
  ELSE
    LET node == [id |-> id, parent |-> parentId, children |-> <<>>,
                 state |-> "running"]
        m1 == Append(m, node)
    IN IF Truthy(parentId) /\ Has(m1, parentId)
       THEN [m1 EXCEPT ![IndexOf(m1, parentId)].children = Append(@, id)]
       ELSE m1

\* A removeSession that deletes the entry and leaves the parent's children.
RemoveSession_KeepInParent(m, id) == SelectSeq(m, LAMBDA n : n.id /= id)

\* A removeSession over an array, splice(indexOf(id), 1): for an id that is
\* not there indexOf is -1 and the last entry goes.
RemoveSession_SpliceLast(m, id) ==
  IF Has(m, id) THEN RemoveSession_KeepInParent(m, id)
  ELSE IF m = <<>> THEN m
  ELSE SubSeq(m, 1, Len(m) - 1)

\* A removeSession that also deletes the entries of the session's children.
RemoveSession_WithChildren(m, id) ==
  IF ~Has(m, id) THEN m
  ELSE SelectSeq(RemoveSession_KeepInParent(m, id),
                 LAMBDA n : n.parent /= id)

\* Sessions.removeSession: the id is filtered out of its tracked parent's
\* children and its entry is deleted; its own children stay.
RemoveSession(m, id) ==
  IF ~Has(m, id) THEN m
  ELSE
    LET node == Get(m, id)
        m1 == IF Truthy(node.parent) /\ Has(m, node.parent)
              THEN [m EXCEPT ![IndexOf(m, node.parent)].children = Without(@, id)]
              ELSE m
    IN SelectSeq(m1, LAMBDA n : n.id /= id)

\* Sessions.updateSessionState: unknown ids are ignored.
UpdateSessionState(m, id, st) ==
  IF Has(m, id) THEN [m EXCEPT ![IndexOf(m, id)].state = st] ELSE m

\* Sessions.getSession: the tracked session object, or undefined.
GetSession(m, id) == IF Has(m, id) THEN id ELSE Null

\* Sessions.buildTreeNode.  The code throws on an id that is not tracked;
\* BuildThrows says whether it does, BuildTreeNode is the node otherwise.
RECURSIVE BuildThrows(_, _)
BuildThrows(m, id) ==
  IF ~Has(m, id) THEN TRUE
  ELSE LET ch == Get(m, id).children
       IN \E i \in 1..Len(ch) : BuildThrows(m, ch[i])

RECURSIVE BuildTreeNode(_, _)
BuildTreeNode(m, id) ==
  LET node == Get(m, id)
  IN [id |-> node.id, state |-> node.state,
      children |-> [i \in 1..Len(node.children) |->
                      BuildTreeNode(m, node.children[i])]]

\* Sessions.getSessionTree: one tree per entry without a parent, in map
\* order, and the size of the map.
RootIds(m) == SelectSeq([i \in 1..Len(m) |-> m[i].id],
                        LAMBDA id : ~Truthy(Get(m, id).parent))

GetSessionTree(m) ==
  LET r == RootIds(m)
  IN IF \E i \in 1..Len(r) : BuildThrows(m, r[i])
     THEN [threw |-> TRUE, roots |-> <<>>, totalSessions |-> 0]
     ELSE [threw |-> FALSE,
           roots |-> [i \in 1..Len(r) |-> BuildTreeNode(m, r[i])],
           totalSessions |-> Len(m)]

\* The ids of the nodes of a tree, and of a forest.
RECURSIVE NodeIds(_)
NodeIds(t) ==
  {t.id} \cup UNION {NodeIds(t.children[i]) : i \in 1..Len(t.children)}

TreeIds(tree) == UNION {NodeIds(tree.roots[i]) : i \in 1..Len(tree.roots)}

\* --------------------------------------------------- the breakpoint store
MaxBreakpoints == 3   \* breakpoints the engine's list may hold in StoreSpec

\* Paths as the callers spell them and lines as they number them (1-based).
StorePaths == {"a.py", "/a.py", "/b.py"}
StoreLines == {1, 2}
\* An option the caller left out is undefined.
Undefined == "undefined"
Conditions == {Undefined, "x > 10"}

\* vscode.Uri.file(filePath).fsPath: a path without a leading slash gets one.
FsPath(file) == IF file = "a.py" THEN "/a.py" ELSE file

\* new vscode.SourceBreakpoint(new Location(uri, new Position(line - 1, 0)),
\* enabled, condition, hitCondition, logMessage)
SourceBreakpoint(fsPath, line0, column, enabled, condition, hitCondition, logMessage) ==
  [kind |-> "source", fsPath |-> fsPath, line0 |-> line0, column |-> column,
   enabled |-> enabled, condition |-> condition, hitCondition |-> hitCondition,
   logMessage |-> logMessage]

\* A breakpoint that is no SourceBreakpoint (a function breakpoint).
FunctionBreakpoint ==
  [kind |-> "function", fsPath |-> "none", line0 |-> 0, column |-> 0,
   enabled |-> TRUE, condition |-> Undefined, hitCondition |-> Undefined,
   logMessage |-> Undefined]

\* The filter of remove and toggle: a source breakpoint of the same fsPath
\* whose 0-based line is line - 1.
MatchesLocation(bp, file, line) ==
  /\ bp.kind = "source"
  /\ bp.fsPath = FsPath(file)
  /\ bp.line0 = line - 1

MatchingBreakpoints(bps, file, line) ==
  SelectSeq(bps, LAMBDA bp : MatchesLocation(bp, file, line))

\* vscode.debug.addBreakpoints / removeBreakpoints on the engine's list.
AddBreakpoints(bps, new) == bps \o new

RemoveMatching(bps, file, line) ==
  SelectSeq(bps, LAMBDA bp : ~MatchesLocation(bp, file, line))

\* Breakpoints.set: a new enabled source breakpoint is added, whatever the
\* list holds already.
BreakpointsSet(bps, file, line, condition, hitCondition, logMessage) ==
  AddBreakpoints(bps, <<SourceBreakpoint(FsPath(file), line - 1, 0, TRUE,
                                         condition, hitCondition, logMessage)>>)

\* A remove that matches the file only.
BreakpointsRemove_WholeFile(bps, file, line) ==
  SelectSeq(bps, LAMBDA bp : ~(bp.kind = "source" /\ bp.fsPath = FsPath(file)))

\* Breakpoints.remove: the matching breakpoints are removed.
BreakpointsRemove(bps, file, line) == RemoveMatching(bps, file, line)

\* Breakpoints.getAll: the source breakpoints as BreakpointInfo, with
\* 1-based lines.
BreakpointInfo(bp) ==
  [file |-> bp.fsPath, line |-> bp.line0 + 1, column |-> bp.column,
   condition |-> bp.condition, hitCondition |-> bp.hitCondition,
   logMessage |-> bp.logMessage, enabled |-> bp.enabled,
   verified |-> bp.enabled]

GetAll(bps) ==
  LET src == SelectSeq(bps, LAMBDA bp : bp.kind = "source")
  IN [i \in 1..Len(src) |-> BreakpointInfo(src[i])]

\* Breakpoints.getByFile
GetByFile(bps, file) ==
  SelectSeq(GetAll(bps), LAMBDA info : info.file = FsPath(file))

\* Breakpoints.toggle throws when nothing matches.
ToggleThrows(bps, file, line) == Len(MatchingBreakpoints(bps, file, line)) = 0

\* A toggle that rebuilds the breakpoint without its condition fields.
BreakpointsToggle_DropFields(bps, file, line, enabled) ==
  LET oldBp == MatchingBreakpoints(bps, file, line)[1]
  IN AddBreakpoints(RemoveMatching(bps, file, line),
                    <<SourceBreakpoint(oldBp.fsPath, oldBp.line0, oldBp.column,
                                       enabled, Undefined, Undefined, Undefined)>>)

\* Breakpoints.toggle when something matches: all matching breakpoints are
\* removed and one is added at the location of the first, with the
\* requested enabled flag and the first's condition fields.
BreakpointsToggle(bps, file, line, enabled) ==
  LET oldBp == MatchingBreakpoints(bps, file, line)[1]
  IN AddBreakpoints(RemoveMatching(bps, file, line),
                    <<SourceBreakpoint(oldBp.fsPath, oldBp.line0, oldBp.column,
                                       enabled, oldBp.condition,
                                       oldBp.hitCondition, oldBp.logMessage)>>)

\* A toggle that creates the breakpoint it did not find before it fails.
ToggleOutcome_CreateMissing(bps, file, line, enabled) ==
  IF ToggleThrows(bps, file, line)
  THEN [threw |-> TRUE, error |-> "BreakpointNotFound",
        bps |-> BreakpointsSet(bps, file, line, Undefined, Undefined, Undefined)]
  ELSE [threw |-> FALSE, error |-> "none",
        bps |-> BreakpointsToggle(bps, file, line, enabled)]

\* Breakpoints.toggle as a whole: the error is thrown before the engine's
\* list is touched.
ToggleOutcome(bps, file, line, enabled) ==
  IF ToggleThrows(bps, file, line)
  THEN [threw |-> TRUE, error |-> "BreakpointNotFound", bps |-> bps]
  ELSE [threw |-> FALSE, error |-> "none",
        bps |-> BreakpointsToggle(bps, file, line, enabled)]

NoStoreOp ==
  [op |-> "none", file |-> "none", line |-> 0, enabled |-> FALSE,
   condition |-> Undefined, before |-> <<>>, threw |-> FALSE, error |-> "none"]

\* ------------------------------------------------- frames and locations
MaxThreads == 2       \* threads a session may report

\* What the adapter answers to a stackTrace request (levels = 1) for a
\* thread: a top frame with a source path, a top frame without one, no
\* frames (the thread runs), or an error.
ThreadStates == {"paused", "nopath", "noframes", "fails"}

HasFrames(st) == st \in {"paused", "nopath"}

\* Thread ids and frame ids are the adapter's; the thread at position i of
\* the threads response has id i and its top frame has id 10 * i.
FrameIdOf(i) == 10 * i

NoDebuggee == [threadsQuery |-> "ok", threads |-> <<>>]

Debuggees ==
  {[threadsQuery |-> q, threads |-> t] :
     q \in {"ok", "fails"},
     t \in UNION {[1..n -> ThreadStates] : n \in 0..MaxThreads}}

NoInspection ==
  [tool |-> "none", pc |-> "idle", frameArg |-> Null, i |-> 0, locations |-> <<>>,
   frameId |-> Null, requests |-> <<>>, isError |-> FALSE, error |-> "none",
   shown |-> <<>>]

\* The frameId argument of evaluate_expression and get_variables: absent,
\* or an integer.
FrameIdArgs == {Null, 0, 7}

\* if (actualFrameId === undefined) actualFrameId = await getCurrentFrameId()
NeedsFrameResolution_Falsy(frameId) == ~Truthy(frameId)

NeedsFrameResolution(frameId) == frameId = Null

\* The errors of the handlers and of Inspection that say that nothing is
\* paused: 'No threads are paused. ...', 'No threads found in debug
\* session', 'No stack frames found. Is the debugger paused?'
NoPausedThreadErrors == {"NoThreadsPaused", "NoThreadsFound", "NoStackFrames"}

\* getCurrentFrameId takes the first thread of the threads response.
FallbackThread_Last(threads) == Len(threads)

FallbackThread(threads) == 1

\* A getCurrentLocation without the try/catch around each thread.
LocationsAfterThread_FailFast(locations, st, i) ==
  [abort |-> st = "fails",
   locations |-> IF st = "paused" THEN Append(locations, i) ELSE locations]

\* Inspection.getCurrentLocation, one round of its loop: a thread whose top
\* frame has a source path adds a location; a thread without frames, with a
\* frame without path, or whose stack query throws is skipped.
LocationsAfterThread(locations, st, i) ==
  [abort |-> FALSE,
   locations |-> IF st = "paused" THEN Append(locations, i) ELSE locations]

\* No session event handled yet.  known: the id was tracked when the event
\* came; seq alternates with every event.
NoEvent ==
  [kind |-> "none", id |-> Null, parent |-> Null, known |-> FALSE, seq |-> 0]

\* --------------------------------------------------- get_stack_frames
\* The threadId argument: absent, or an integer.  Thread ids are scoped to
\* a session.
ThreadIds == {0, 1}

ThreadIdArgs == {Null} \cup ThreadIds

\* vscode.debug.activeStackItem: nothing, a thread or a frame of the
\* focused session.
NoStackItem == [kind |-> "none", session |-> Null, threadId |-> Null]

\* The lists of threads a session reports.
ThreadLists == {<<>>, <<1>>, <<1, 0>>}

NoStackCall ==
  [pc |-> "idle", target |-> Null, explicitSession |-> FALSE, threadArg |-> Null,
   item |-> NoStackItem, threads |-> <<>>, threadsOk |-> TRUE, source |-> "none",
   requests |-> <<>>, isError |-> FALSE, error |-> "none"]

\* ------------------------------------------------------- connections
\* The connections a run opens; each SSEServerTransport has its own id.
MaxConnections == 2

ConnIds == 1..MaxConnections

\* The stream events delivered for one connection ('error' or 'aborted'
\* may be followed by 'close').
MaxStreamEvents == 2

StreamEvents == {"close", "error", "aborted"}

\* pc: "none" no GET yet, "connecting" inside await mcpServer.connect,
\* "open" handleGet returned normally, "failed" handleGet's catch ran.
NoConnection ==
  [pc |-> "none", stream |-> "none", listening |-> FALSE, events |-> 0]

NoPost == [sessionId |-> Null, status |-> "none"]

\* The server after construction: start() was not called.
\* stop: "idle" no stop() in flight, "closing" stop() awaits the close
\* attempts, "releasing" httpServer.close() was called, "done" its callback
\* ran.  tracked: the map when stop() read it; attempted: the connections
\* whose transport.close() was called; failed: those whose close() rejected.
NoServer ==
  [isRunning |-> FALSE, listening |-> FALSE, stop |-> "idle",
   tracked |-> {}, attempted |-> {}, failed |-> {}]

\* The answer to a POST: the status handlePost writes, or "routed" when the
\* message went to the transport of its connection.
PostStatus_RouteUnknown(map, sid, throws) ==
  IF sid = Null THEN "BAD_REQUEST"
  ELSE IF throws THEN "INTERNAL_SERVER_ERROR"
  ELSE "routed"

PostStatus(map, sid, throws) ==
  IF ~Truthy(sid) THEN "BAD_REQUEST"
  ELSE IF sid \notin map THEN "NOT_FOUND"
  ELSE IF throws THEN "INTERNAL_SERVER_ERROR"
  ELSE "routed"

\* The connections stop() calls transport.close() on: the loop goes over
\* the whole map, a rejected close() is caught per connection.
CloseAttempts_AbortOnFailure(map, failing) ==
  {id \in map : \A f \in failing : id <= f}

CloseAttempts(map, failing) == map

\* Map.delete(sessionId) as the three listeners call it: deleting an absent
\* key changes nothing.
DeleteConnection(map, id) == map \ {id}

\* ------------------------------------------- start and stop of the server
\* The command invocations that can be in flight together.
MaxCommands == 2

Invocations == 1..MaxCommands

\* listen() calls followed between two completed stops.
MaxListenCalls == 3

\* The callers of start() and stop(): the autostart of activate() and the
\* three commands.
CommandKinds == {"start", "stop", "restart"}

\* The server after construction.  port is the state of the httpServer:
\* "closed", "binding" between listen() and its callback, "listening".
\* listenCalls counts the listen() calls since the last completed stop or
\* failed listen.
NoLife ==
  [activated |-> FALSE, isRunning |-> FALSE, port |-> "closed", listenCalls |-> 0]

\* heldAtStart: when start() was called, a start had succeeded or was in
\* progress and no stop had completed since.
NoCommand ==
  [kind |-> "none", pc |-> "idle", result |-> "none", calledStart |-> FALSE,
   heldAtStart |-> FALSE]

\* ------------------------------------------------------ records of a call
NoCall ==
  [tool |-> "none", sessionId |-> Null, configuration |-> "none",
   parentSessionId |-> Null, folder |-> FALSE, configs |-> <<>>,
   session |-> Null, target |-> Null, requested |-> FALSE,
   calledStart |-> FALSE, accepted |-> "none"]

NoWaiter ==
  [listening |-> FALSE, timer |-> "none", delay |-> 0, promise |-> "none",
   session |-> Null]

NoResult ==
  [id |-> 0, call |-> NoCall, waiter |-> NoWaiter, isError |-> FALSE,
   error |-> "none", available |-> <<>>, value |-> Null, threw |-> FALSE]

\* The positions at which a call is inside the function it passed to
\* runExclusive (it has been given the gate and has not released it).
\* "acquired": it took the free gate; "granted": a release passed it the gate.
EntryPcs == {"acquired", "granted"}

BodyPcs == EntryPcs \cup {"startDebugging", "awaitSession", "engineRequest"}

InBody(c) == pc[c] \in BodyPcs

\* ------------------------------------------------------------ the Mutex
\* Mutex.runExclusive, entry: the caller takes the free gate, or joins the
\* queue behind the callers already waiting.
RunExclusiveEnter(c) ==
  IF ~locked
  THEN /\ locked' = TRUE
       /\ queue' = queue
       /\ guard' = guard + 1
       /\ pc' = [pc EXCEPT ![c] = "acquired"]
  ELSE /\ locked' = locked
       /\ queue' = Append(queue, c)
       /\ guard' = guard
       /\ pc' = [pc EXCEPT ![c] = "queued"]

\* A release that passes the gate to the newest waiter.
Release_Lifo(c) ==
  IF queue = <<>>
  THEN /\ locked' = FALSE
       /\ queue' = queue
       /\ guard' = guard - 1
       /\ pc' = [pc EXCEPT ![c] = "done"]
  ELSE /\ locked' = locked
       /\ queue' = SubSeq(queue, 1, Len(queue) - 1)
       /\ guard' = guard
       /\ pc' = [pc EXCEPT ![c] = "done", ![queue[Len(queue)]] = "granted"]

\* Mutex release: the oldest waiter, if any, is given the gate; otherwise the
\* gate becomes free.
Release(c) ==
  IF queue = <<>>
  THEN /\ locked' = FALSE
       /\ queue' = queue
       /\ guard' = guard - 1
       /\ pc' = [pc EXCEPT ![c] = "done"]
  ELSE /\ locked' = locked
       /\ queue' = Tail(queue)
       /\ guard' = guard
       /\ pc' = [pc EXCEPT ![c] = "done", ![Head(queue)] = "granted"]

\* A runExclusive that forgets the gate when its function throws.
RunExclusiveExit_KeepOnThrow(c, threw) ==
  IF threw
  THEN /\ locked' = locked
       /\ queue' = queue
       /\ guard' = guard - 1
       /\ pc' = [pc EXCEPT ![c] = "done"]
  ELSE Release(c)

\* Mutex.runExclusive, exit: the gate is released when the function returns
\* and when it throws, before the result or the error reaches the caller.
RunExclusiveExit(c, threw) == Release(c)

\* ------------------------------------------------------------------ Init
MaxPreexisting == 2   \* sessions already running when the registry is built

PreCount == IF MaxPreexisting < MaxSessions THEN MaxPreexisting ELSE MaxSessions

\* Sessions.constructor: the registry starts with the active session, if
\* there is one; the other sessions of the engine are not known to it.
Init ==
  /\ \E k \in 0..PreCount :
       /\ engine = [s \in SessionIds |->
                     [status |-> IF s <= k THEN "running" ELSE "none",
                      parent |-> Null]]
       /\ active \in (IF k = 0 THEN {Null} ELSE 1..k)
  /\ sessions = (IF active /= Null
                 THEN AddSession(<<>>, active, engine[active].parent)
                 ELSE <<>>)
  /\ breakpoints = <<>>
  /\ locked = FALSE
  /\ queue = <<>>
  /\ guard = 0
  /\ pc = [c \in Calls |-> "idle"]
  /\ call = [c \in Calls |-> NoCall]
  /\ waiter = [c \in Calls |-> NoWaiter]
  /\ lastResult = NoResult
  /\ storeOp = NoStoreOp
  /\ dbg = NoDebuggee
  /\ insp = NoInspection
  /\ activeConnections = {}
  /\ conn = [id \in ConnIds |-> NoConnection]
  /\ lastPost = NoPost
  /\ server = NoServer
  /\ event = NoEvent
  /\ origin = [c \in Calls |-> Null]
  /\ stk = NoStackCall
  /\ life = NoLife
  /\ cmd = [i \in Invocations |-> NoCommand]

\* ------------------------------------------------------- a tool is called
\* A handler that runs its body without going through the serializer.
ToolCall_Unserialized(c) ==
  /\ pc[c] = "idle"
  /\ \A b \in Calls : b < c => pc[b] /= "idle"
  /\ pc' = [pc EXCEPT ![c] = "acquired"]
  /\ guard' = guard + 1
  /\ UNCHANGED <<locked, queue>>
  /\ UNCHANGED <<sessions, engine, active, breakpoints, call, waiter, lastResult>>

\* Every handler is `return mutex.runExclusive(async () => { ... })` on the
\* one Mutex of the server.  Calls are numbered in the order in which they
\* call runExclusive.
ToolCall(c) ==
  /\ pc[c] = "idle"
  /\ \A b \in Calls : b < c => pc[b] /= "idle"
  /\ RunExclusiveEnter(c)
  /\ UNCHANGED <<sessions, engine, active, breakpoints, call, waiter, lastResult>>

\* The end of a body: the handler's result (or the error it rethrew) leaves
\* runExclusive.
Finish(c, rec, isError, error, available, value, threw) ==
  /\ lastResult' =
       [id |-> c, call |-> rec, waiter |-> waiter[c], isError |-> isError,
        error |-> error, available |-> available, value |-> value,
        threw |-> threw]
  /\ call' = [call EXCEPT ![c] = NoCall]
  /\ RunExclusiveExit(c, threw)

\* catch (error) { return createErrorResult(error) }
ReturnError(c, rec, error) == Finish(c, rec, TRUE, error, <<>>, Null, FALSE)

\* catch (error) { throw error }
Rethrow(c, rec, error) == Finish(c, rec, FALSE, error, <<>>, Null, TRUE)

ReturnOk(c, rec, value) == Finish(c, rec, FALSE, "none", <<>>, value, FALSE)

\* ------------------------------------------------- launching a session
Range(seq) == {seq[i] : i \in 1..Len(seq)}

\* The configuration lookup shared by launch_debug and launch_child_debug:
\* the error the handler throws, or "ok" when the named configuration is
\* found.
ConfigCheck(folder, configs, name) ==
  IF ~folder THEN "NoWorkspaceFolder"
  ELSE IF Len(configs) = 0 THEN "NoConfigurations"
  ELSE IF name \notin Range(configs) THEN "ConfigurationNotFound"
  ELSE "ok"

\* configurations.map(c => c.name), the names the not-found message lists.
AvailableNames(chk, configs) ==
  IF chk = "ConfigurationNotFound" THEN configs ELSE <<>>

\* A waitForSession that arms no timer.
WaitForSession_NoTimeout ==
  [listening |-> TRUE, timer |-> "none", delay |-> 0, promise |-> "pending",
   session |-> Null]

\* Sessions.waitForSession: a promise, a 10 s timer that rejects it, and a
\* start-event listener that clears the timer, disposes itself and resolves
\* the promise with the session of the event.
WaitForSession ==
  [listening |-> TRUE, timer |-> "armed", delay |-> WaitTimeoutMs,
   promise |-> "pending", session |-> Null]

\* The listener of waitForSession, run for the start event of session s.
NotifyWaiter(w, s) ==
  IF w.listening
  THEN [listening |-> FALSE,
        timer |-> IF w.timer = "armed" THEN "cleared" ELSE w.timer,
        delay |-> w.delay,
        promise |-> IF w.promise = "pending" THEN "resolved" ELSE w.promise,
        session |-> IF w.promise = "pending" THEN s ELSE w.session]
  ELSE w

\* What is left of a waiter once the launch that awaited its promise has
\* ended: the listener while it is subscribed and the timer while it is
\* armed.  The promise itself is unreachable.
Collect(w) ==
  [listening |-> w.listening,
   timer |-> IF w.timer = "armed" THEN "armed" ELSE "none",
   delay |-> IF w.timer = "armed" THEN w.delay ELSE 0,
   promise |-> "none", session |-> Null]

\* Sessions.launch up to its first await: the waiter is registered, then
\* the engine is asked to start the configuration.
Launch(c, rec) ==
  /\ waiter' = [waiter EXCEPT ![c] = WaitForSession]
  /\ call' = [call EXCEPT ![c] = [rec EXCEPT !.calledStart = TRUE]]
  /\ pc' = [pc EXCEPT ![c] = "startDebugging"]
  /\ lastResult' = NoResult
  /\ UNCHANGED <<sessions, engine, active, breakpoints, locked, queue, guard>>

\* A launchChild that does not look the parent up.
LaunchChild_NoParentCheck(c, rec) == Launch(c, rec)

\* Sessions.launchChild up to its first await: an untracked parent is an
\* error before anything else happens.
LaunchChild(c, rec) ==
  IF ~Has(sessions, rec.parentSessionId)
  THEN /\ ReturnError(c, rec, "ParentNotFound")
       /\ UNCHANGED <<sessions, engine, active, breakpoints, waiter>>
  ELSE Launch(c, rec)

\* A launch_debug that starts the first configuration when the name is
\* not found.
LaunchDebugBody_StartAnyway(c, folder, configs, name) ==
  LET rec == [NoCall EXCEPT !.tool = "launch_debug", !.configuration = name,
                            !.folder = folder, !.configs = configs]
  IN IF folder /\ Len(configs) > 0
     THEN Launch(c, rec)
     ELSE /\ ReturnError(c, rec, ConfigCheck(folder, configs, name))
          /\ UNCHANGED <<sessions, engine, active, breakpoints, waiter>>

\* The body of launch_debug up to its first await.
LaunchDebugBody(c, folder, configs, name) ==
  LET rec == [NoCall EXCEPT !.tool = "launch_debug", !.configuration = name,
                            !.folder = folder, !.configs = configs]
      chk == ConfigCheck(folder, configs, name)
  IN IF chk /= "ok"
     THEN /\ Finish(c, rec, TRUE, chk, AvailableNames(chk, configs), Null, FALSE)
          /\ UNCHANGED <<sessions, engine, active, breakpoints, waiter>>
     ELSE Launch(c, rec)

LaunchDebug(c) ==
  /\ pc[c] \in EntryPcs
  /\ \E folder \in BOOLEAN, configs \in ConfigLists, name \in RequestedNames :
       /\ ~folder => configs = <<>>
       /\ LaunchDebugBody(c, folder, configs, name)

\* The body of launch_child_debug up to its first await.
LaunchChildDebugBody(c, folder, configs, name, parentId) ==
  LET rec == [NoCall EXCEPT !.tool = "launch_child_debug",
                            !.configuration = name, !.folder = folder,
                            !.configs = configs, !.parentSessionId = parentId]
      chk == ConfigCheck(folder, configs, name)
  IN IF chk /= "ok"
     THEN /\ Finish(c, rec, TRUE, chk, AvailableNames(chk, configs), Null, FALSE)
          /\ UNCHANGED <<sessions, engine, active, breakpoints, waiter>>
     ELSE LaunchChild(c, rec)

LaunchChildDebug(c) ==
  /\ pc[c] \in EntryPcs
  /\ \E folder \in BOOLEAN, configs \in ConfigLists, name \in RequestedNames,
        parentId \in SessionIds :
       /\ ~folder => configs = <<>>
       /\ LaunchChildDebugBody(c, folder, configs, name, parentId)

\* A launch that goes on to wait for the session although the engine
\* declined.
StartDebuggingReturn_IgnoreDeclined(c, success) ==
  /\ pc[c] = "startDebugging"
  /\ pc' = [pc EXCEPT ![c] = "awaitSession"]
  /\ call' = [call EXCEPT ![c].accepted = IF success THEN "true" ELSE "false"]
  /\ UNCHANGED <<sessions, engine, active, breakpoints, waiter, locked, queue,
                 guard, lastResult>>

\* vscode.debug.startDebugging returns: `if (!success) throw`, otherwise the
\* launch goes on to await the promise of waitForSession.
StartDebuggingReturn(c, success) ==
  /\ pc[c] = "startDebugging"
  /\ LET rec == [call[c] EXCEPT !.accepted = IF success THEN "true" ELSE "false"]
     IN IF ~success
        THEN /\ ReturnError(c, rec, "LaunchRejected")
             /\ waiter' = [waiter EXCEPT ![c] = Collect(@)]
             /\ UNCHANGED <<sessions, engine, active, breakpoints>>
        ELSE /\ pc' = [pc EXCEPT ![c] = "awaitSession"]
             /\ call' = [call EXCEPT ![c] = rec]
             /\ UNCHANGED <<sessions, engine, active, breakpoints, waiter,
                            locked, queue, guard, lastResult>>

\* `await sessionPromise` continues once the promise is settled: launch
\* sets the state of the session and returns its id; a rejection is the
\* timeout error.
LaunchResume(c) ==
  /\ pc[c] = "awaitSession"
  /\ waiter[c].promise \in {"resolved", "rejected"}
  /\ IF waiter[c].promise = "resolved"
     THEN /\ sessions' = (IF call[c].tool = "launch_debug"
                          THEN UpdateSessionState(sessions, waiter[c].session, "running")
                          ELSE sessions)
          /\ ReturnOk(c, call[c], waiter[c].session)
     ELSE /\ sessions' = sessions
          /\ ReturnError(c, call[c], "LaunchTimeout")
  /\ waiter' = [waiter EXCEPT ![c] = Collect(@)]
  /\ UNCHANGED <<engine, active, breakpoints>>

\* The timer of waitForSession expires: setTimeout's callback rejects the
\* promise (a no-op on a settled promise).
TimerFire(c) ==
  /\ waiter[c].timer = "armed"
  /\ LET w == [waiter[c] EXCEPT !.timer = "fired",
                                !.promise = IF @ = "pending" THEN "rejected" ELSE @]
     IN waiter' = [waiter EXCEPT ![c] = IF pc[c] = "done" THEN Collect(w) ELSE w]
  /\ UNCHANGED <<sessions, engine, active, breakpoints, locked, queue, guard,
                 pc, call, lastResult>>

\* ------------------------------------------------------- breakpoint tools
\* Breakpoints.set inside the set_breakpoint handler, which rethrows what
\* the engine throws: the breakpoint is appended to the engine's list.
SetBreakpoint(c) ==
  /\ pc[c] \in EntryPcs
  /\ \E file \in Files, line \in Lines, fails \in BOOLEAN :
       LET rec == [NoCall EXCEPT !.tool = "set_breakpoint"]
       IN IF fails
          THEN /\ Rethrow(c, rec, "EngineError")
               /\ UNCHANGED breakpoints
          ELSE /\ breakpoints' =
                    BreakpointsSet(breakpoints, file, line, Undefined, Undefined, Undefined)
               /\ ReturnOk(c, rec, Null)
  /\ UNCHANGED <<sessions, engine, active, waiter>>

\* ------------------------------------------ tools that target a session
\* The request goes out and the body awaits the engine's answer.
SendRequest(c, rec) ==
  /\ call' = [call EXCEPT ![c] = [rec EXCEPT !.requested = TRUE]]
  /\ pc' = [pc EXCEPT ![c] = "engineRequest"]
  /\ lastResult' = NoResult
  /\ UNCHANGED <<sessions, engine, active, breakpoints, waiter, locked, queue,
                 guard>>

Fail(c, rec, error) ==
  /\ ReturnError(c, rec, error)
  /\ UNCHANGED <<sessions, engine, active, breakpoints, waiter>>

\* continue_execution, pause_execution, step_over, step_into, step_out:
\*   session = args.sessionId ? sessions.getSession(args.sessionId) : undefined
\* then Execution.<action>(session): targetSession = session || active, and
\* the workbench command, which acts on the session the engine has active.
ExecutionBody(c, tool, sid) ==
  LET session == IF Truthy(sid) THEN GetSession(sessions, sid) ELSE Null
      targetSession == IF session /= Null THEN session ELSE active
      rec == [NoCall EXCEPT !.tool = tool, !.sessionId = sid]
  IN IF Truthy(sid) /\ session = Null THEN Fail(c, rec, "SessionNotFound")
     ELSE IF targetSession = Null THEN Fail(c, rec, "NoActiveSession")
     ELSE SendRequest(c, [rec EXCEPT !.session = targetSession,
                                     !.target = active])

ExecutionTool(c) ==
  /\ pc[c] \in EntryPcs
  /\ \E tool \in ExecutionTools, sid \in SessionIdArgs : ExecutionBody(c, tool, sid)

\* evaluate_expression, list_threads, get_stack_frames, get_variables:
\*   session = args.sessionId ? sessions.getSession(args.sessionId)
\*                            : sessions.getActiveSession()
\* then the requests go to that session.
InspectionBody(c, tool, sid) ==
  LET session == IF Truthy(sid) THEN GetSession(sessions, sid) ELSE active
      rec == [NoCall EXCEPT !.tool = tool, !.sessionId = sid]
  IN IF Truthy(sid) /\ session = Null THEN Fail(c, rec, "SessionNotFound")
     ELSE IF session = Null THEN Fail(c, rec, "NoActiveSession")
     ELSE SendRequest(c, [rec EXCEPT !.session = session, !.target = session])

InspectionTool(c) ==
  /\ pc[c] \in EntryPcs
  /\ \E tool \in InspectionTools, sid \in SessionIdArgs : InspectionBody(c, tool, sid)

\* get_current_location: the same resolution without the check for a
\* missing session; Inspection.getCurrentLocation(undefined) falls back to
\* the active session and returns [] when there is none, which the handler
\* turns into its no-threads-paused error.
GetCurrentLocationBody(c, sid) ==
  LET session == IF Truthy(sid) THEN GetSession(sessions, sid) ELSE active
      targetSession == IF session /= Null THEN session ELSE active
      rec == [NoCall EXCEPT !.tool = "get_current_location", !.sessionId = sid]
  IN IF Truthy(sid) /\ session = Null THEN Fail(c, rec, "SessionNotFound")
     ELSE IF targetSession = Null THEN Fail(c, rec, "NoPausedThread")
     ELSE SendRequest(c, [rec EXCEPT !.session = targetSession,
                                     !.target = targetSession])

GetCurrentLocation(c) ==
  /\ pc[c] \in EntryPcs
  /\ \E sid \in SessionIdArgs : GetCurrentLocationBody(c, sid)

\* Sessions.terminate(sessionId):
\*   session = sessionId ? this.getSession(sessionId) : this.getActiveSession()
\* An empty string is a sessionId the handler's schema accepts.
StopSessionIdArgs == SessionIdArgs \cup {EmptyStr}

TerminateTarget_FallBackToActive(m, act, sid) ==
  IF Truthy(sid) /\ Has(m, sid) THEN sid ELSE act

TerminateTarget(m, act, sid) ==
  IF Truthy(sid) THEN GetSession(m, sid) ELSE act

\* stop_debug: Sessions.terminate throws when no session resolves, else
\* awaits vscode.debug.stopDebugging(session).
StopDebugBody(c, sid) ==
  LET session == TerminateTarget(sessions, active, sid)
      rec == [NoCall EXCEPT !.tool = "stop_debug", !.sessionId = sid]
  IN IF session = Null THEN Fail(c, rec, "NoActiveSession")
     ELSE SendRequest(c, [rec EXCEPT !.session = session, !.target = session])

StopDebug(c) ==
  /\ pc[c] \in EntryPcs
  /\ \E sid \in StopSessionIdArgs : StopDebugBody(c, sid)

\* The engine answers (or fails) the request of the body.  An empty list
\* of locations and a failed threads query both end get_current_location
\* with the no-threads-paused error.
ReplyOutcomes == {"ok", "NoPausedThread", "EngineError"}

EngineReply(c) ==
  /\ pc[c] = "engineRequest"
  /\ \E outcome \in ReplyOutcomes :
       IF outcome = "ok" THEN ReturnOk(c, call[c], Null)
       ELSE IF call[c].tool = "get_current_location"
            THEN ReturnError(c, call[c], "NoPausedThread")
       ELSE IF call[c].tool \in ExecutionTools \cup {"stop_debug"}
            THEN ReturnError(c, call[c], "EngineError")
       ELSE ReturnError(c, call[c], outcome)
  /\ UNCHANGED <<sessions, engine, active, breakpoints, waiter>>

\* ------------------------------------------------- events of the engine
RunningIds == {s \in SessionIds : engine[s].status = "running"}

\* The subscribers of the session events are called by the engine
\* directly, outside runExclusive: the registry they leave is the registry
\* after the event, whether the gate is held or not.
ApplyEvent_WhenUnlocked(gate, before, after) == IF gate THEN before ELSE after

ApplyEvent(gate, before, after) == after

\* vscode.debug.onDidStartDebugSession fires for a new session s with parent
\* p: the registry's subscriber (addSession) runs first, then the listener
\* of every waitForSession still subscribed.
OnDidStartDebugSession(s, p) ==
  /\ engine[s].status = "none"
  /\ IF p = Null THEN TRUE ELSE engine[p].status = "running"
  /\ engine' = [engine EXCEPT ![s] = [status |-> "running", parent |-> p]]
  /\ sessions' = ApplyEvent(locked, sessions, AddSession(sessions, s, p))
  /\ waiter' = [c \in Calls |->
                  LET w == NotifyWaiter(waiter[c], s)
                  IN IF pc[c] = "done" THEN Collect(w) ELSE w]
  /\ active' \in {s} \cup ({active} \ {Null})
  /\ UNCHANGED <<breakpoints, locked, queue, guard, pc, call, lastResult>>

\* A termination handler that also clears the engine's breakpoints.
OnDidTerminateDebugSession_ClearsBreakpoints(s) ==
  /\ engine[s].status = "running"
  /\ engine' = [engine EXCEPT ![s].status = "terminated"]
  /\ sessions' = RemoveSession(RemoveSession(sessions, s), s)
  /\ active' \in (IF active = s THEN {Null} \cup (RunningIds \ {s}) ELSE {active})
  /\ breakpoints' = <<>>
  /\ UNCHANGED <<locked, queue, guard, pc, call, waiter, lastResult>>

\* vscode.debug.onDidTerminateDebugSession fires for s: the subscriber of
\* Sessions and the subscriber of Debug both call removeSession(s.id).
OnDidTerminateDebugSession(s) ==
  /\ engine[s].status = "running"
  /\ engine' = [engine EXCEPT ![s].status = "terminated"]
  /\ sessions' = ApplyEvent(locked, sessions,
                            RemoveSession(RemoveSession(sessions, s), s))
  /\ active' \in (IF active = s THEN {Null} \cup (RunningIds \ {s}) ELSE {active})
  /\ UNCHANGED <<breakpoints, locked, queue, guard, pc, call, waiter, lastResult>>

\* The user (or the engine) focuses another running session.
OnDidChangeActiveDebugSession(s) ==
  /\ engine[s].status = "running"
  /\ active /= s
  /\ active' = s
  /\ UNCHANGED <<sessions, engine, breakpoints, locked, queue, guard, pc, call,
                 waiter, lastResult>>

\* ------------------------------------------------------------------ Next
Next ==
  \/ \E c \in Calls : ToolCall(c) /\ UNCHANGED xvars
  \/ \E c \in Calls : LaunchDebug(c) /\ UNCHANGED xvars
  \/ \E c \in Calls : LaunchChildDebug(c) /\ UNCHANGED xvars
  \/ \E c \in Calls, success \in BOOLEAN : StartDebuggingReturn(c, success) /\ UNCHANGED xvars
  \/ \E c \in Calls : LaunchResume(c) /\ UNCHANGED xvars
  \/ \E c \in Calls : TimerFire(c) /\ UNCHANGED xvars
  \/ \E c \in Calls : SetBreakpoint(c) /\ UNCHANGED xvars
  \/ \E c \in Calls : ExecutionTool(c) /\ UNCHANGED xvars
  \/ \E c \in Calls : InspectionTool(c) /\ UNCHANGED xvars
  \/ \E c \in Calls : GetCurrentLocation(c) /\ UNCHANGED xvars
  \/ \E c \in Calls : StopDebug(c) /\ UNCHANGED xvars
  \/ \E c \in Calls : EngineReply(c) /\ UNCHANGED xvars
  \/ \E s \in SessionIds, p \in SessionIds \cup {Null} : OnDidStartDebugSession(s, p) /\ UNCHANGED xvars
  \/ \E s \in SessionIds : OnDidTerminateDebugSession(s) /\ UNCHANGED xvars
  \/ \E s \in SessionIds : OnDidChangeActiveDebugSession(s) /\ UNCHANGED xvars

Spec == Init /\ [][Next]_vars

\* ===================================================================
\* Properties
\* ===================================================================

\* The calls that are inside their body.
Holders == {c \in Calls : InBody(c)}

Started(c) == pc[c] \in BodyPcs \cup {"done"}

\* The record of the body that took a step: the record it goes on with, or
\* the record of its result when the step ended the body.
StepRec(c) == IF pc'[c] = "done" THEN lastResult'.call ELSE call'[c]

\* Call c runs the first segment of its body in this step.
FirstSegment(c) == pc[c] \in EntryPcs /\ pc'[c] \notin EntryPcs

\* C1: at most one tool-call body is in flight between acquiring and
\* releasing the gate, whatever connections the calls came from: the guard
\* counter (up on entry, down on exit) never exceeds 1 and counts exactly
\* the bodies in flight.
C1_OneBodyInFlight ==
  /\ guard <= 1
  /\ guard = Cardinality(Holders)
  /\ locked <=> Holders /= {}

\* C1 witness: one call is inside its body while another, called
\* concurrently, waits for the gate.
C1_Witness == \E c, d \in Calls : InBody(c) /\ pc[d] = "queued"

\* C2: calls get the gate in the order in which they called runExclusive
\* (calls are numbered in that order) and complete in the order they got
\* it: a later call never runs its body, or completes, before an earlier
\* one, and the queue holds the waiting calls oldest first.
C2_FifoOrder ==
  /\ \A c, d \in Calls : c < d =>
       /\ Started(d) => Started(c)
       /\ pc[d] = "done" => pc[c] = "done"
  /\ \A i, j \in 1..Len(queue) : i < j => queue[i] < queue[j]

\* C2 witness: a waiting call was passed the gate while a call that queued
\* after it still waits.
C2_Witness == \E c, d \in Calls : c < d /\ pc[c] = "granted" /\ pc[d] = "queued"

\* C3: when a body has failed and the error left runExclusive, the gate
\* was released first: the failed call holds nothing, the gate is held only
\* by a call inside its body, and nobody waits while no body is in flight.
C3_ReleasedOnFailure ==
  lastResult.threw =>
    /\ pc[lastResult.id] = "done"
    /\ locked <=> Holders /= {}
    /\ queue /= <<>> => Holders /= {}

\* C3 witness: set_breakpoint rethrew and the call queued behind it was
\* passed the gate.
C3_Witness ==
  /\ lastResult.threw
  /\ lastResult.call.tool = "set_breakpoint"
  /\ \E d \in Calls : d > lastResult.id /\ pc[d] = "granted"

\* ------------------------------------------------------------ registry
ChildrenOf(m, id) == Range(Get(m, id).children)

\* C4: once the termination event of a session that had started has been
\* processed, getSessionTree() succeeds and has no node with its id,
\* totalSessions is the number of tracked sessions, which do not include
\* it, and no children list contains its id.
C4_TerminatedSessionGone ==
  \A s \in SessionIds : engine[s].status = "terminated" =>
    LET tree == GetSessionTree(sessions)
    IN /\ ~tree.threw
       /\ s \notin TreeIds(tree)
       /\ s \notin TrackedIds(sessions)
       /\ tree.totalSessions = Cardinality(TrackedIds(sessions))
       /\ \A p \in TrackedIds(sessions) : s \notin ChildrenOf(sessions, p)

\* C4 witness: a child of a tracked root has terminated; the root is shown
\* with zero children and totalSessions = 1.
C4_Witness ==
  \E s, p \in SessionIds :
    /\ engine[s].status = "terminated"
    /\ engine[s].parent = p
    /\ Has(sessions, p)
    /\ LET tree == GetSessionTree(sessions)
       IN /\ tree.totalSessions = 1
          /\ Len(tree.roots) = 1
          /\ tree.roots[1].id = p
          /\ tree.roots[1].children = <<>>

\* Following the recorded parents from `from` reaches `target`.
RECURSIVE OnParentPath(_, _, _, _)
OnParentPath(m, from, target, fuel) ==
  IF fuel = 0 \/ ~Has(m, from) THEN FALSE
  ELSE LET p == Get(m, from).parent
       IN IF ~Truthy(p) THEN FALSE
          ELSE p = target \/ OnParentPath(m, p, target, fuel - 1)

\* C5 (as claimed): the parent/children relation of the registry is a
\* forest: no cycle, every tracked session is in at most one children
\* list, and every tracked session with a non-null parent has that parent
\* tracked in the registry.
C5_RegistryIsForest ==
  /\ \A id \in TrackedIds(sessions) : ~OnParentPath(sessions, id, id, Len(sessions))
  /\ \A id \in TrackedIds(sessions) :
       Cardinality({p \in TrackedIds(sessions) : id \in ChildrenOf(sessions, p)}) <= 1
  /\ \A id \in TrackedIds(sessions) :
       Truthy(Get(sessions, id).parent) => Has(sessions, Get(sessions, id).parent)

\* ---------------------------------------------------------------- launch
\* launchChild was reached: the configuration lookup of the handler passed.
ConfigFound(rec) == ConfigCheck(rec.folder, rec.configs, rec.configuration) = "ok"

\* C6: a launchChild whose parentSessionId is not tracked fails with the
\* parent-not-found error in the same step, without calling the engine's
\* start primitive, without registering a start-event waiter and without
\* changing the registry.
C6_UnknownParentFails ==
  [][\A c \in Calls :
       (/\ FirstSegment(c)
        /\ StepRec(c).tool = "launch_child_debug"
        /\ ConfigFound(StepRec(c))
        /\ ~Has(sessions, StepRec(c).parentSessionId))
       => /\ pc'[c] = "done"
          /\ lastResult'.id = c
          /\ lastResult'.isError
          /\ lastResult'.error = "ParentNotFound"
          /\ ~lastResult'.call.calledStart
          /\ waiter' = waiter
          /\ sessions' = sessions
          /\ engine' = engine]_vars

\* C6 witness: a launch_child_debug ended with the parent-not-found error.
C6_Witness ==
  /\ lastResult.call.tool = "launch_child_debug"
  /\ lastResult.error = "ParentNotFound"

NameAbsent(rec) == rec.configuration \notin Range(rec.configs)

\* C7 (as claimed): launch_debug with a name that is absent from the
\* workspace configuration list fails with the configuration-not-found
\* error listing the available names, and never calls the start primitive.
C7_AbsentNameNotFound ==
  (lastResult.call.tool = "launch_debug" /\ NameAbsent(lastResult.call)) =>
    /\ lastResult.isError
    /\ lastResult.error = "ConfigurationNotFound"
    /\ lastResult.available = lastResult.call.configs
    /\ ~lastResult.call.calledStart

\* C7 (amended): launch_debug with a name that is absent from the workspace
\* configuration list never calls the start primitive and fails: with the
\* configuration-not-found error listing the available names when the list
\* is not empty, with the no-configurations error when the list is empty or
\* missing, with the no-workspace-folder error when no folder is open.
C7_AbsentNameFails ==
  (lastResult.call.tool = "launch_debug" /\ NameAbsent(lastResult.call)) =>
    /\ lastResult.isError
    /\ ~lastResult.call.calledStart
    /\ lastResult.waiter = NoWaiter
    /\ lastResult.error =
         (IF ~lastResult.call.folder THEN "NoWorkspaceFolder"
          ELSE IF lastResult.call.configs = <<>> THEN "NoConfigurations"
          ELSE "ConfigurationNotFound")
    /\ lastResult.error = "ConfigurationNotFound" =>
         lastResult.available = lastResult.call.configs

\* C7 witness: a launch_debug for a name missing from a list of two
\* configurations ended with the not-found error listing both.
C7_Witness ==
  /\ lastResult.call.tool = "launch_debug"
  /\ lastResult.error = "ConfigurationNotFound"
  /\ lastResult.available = <<"web", "worker">>

\* C8: a launch that called the start primitive is rejected when the
\* engine declined; times out when the engine accepted and the 10 s timer
\* fired before any session-started event reached the waiter; and returns
\* an id only when the engine accepted and the waiter received the
\* session-started event of that id, which cleared the timer.
C8_LaunchOutcome ==
  (lastResult.call.tool = "launch_debug" /\ lastResult.call.calledStart) =>
    LET w == lastResult.waiter
    IN /\ w.delay = WaitTimeoutMs
       /\ lastResult.call.accepted \in {"true", "false"}
       /\ lastResult.call.accepted = "false" =>
            lastResult.isError /\ lastResult.error = "LaunchRejected"
       /\ (lastResult.call.accepted = "true" /\ w.session = Null) =>
            /\ lastResult.isError
            /\ lastResult.error = "LaunchTimeout"
            /\ w.timer = "fired"
       /\ ~lastResult.isError =>
            /\ lastResult.call.accepted = "true"
            /\ w.promise = "resolved"
            /\ w.timer = "cleared"
            /\ lastResult.value = w.session
            /\ lastResult.value \in SessionIds
            /\ engine[lastResult.value].status /= "none"

\* C8 witness: the engine accepted a launch and it timed out.
C8_Witness ==
  /\ lastResult.call.tool = "launch_debug"
  /\ lastResult.call.accepted = "true"
  /\ lastResult.error = "LaunchTimeout"

\* C33 (as claimed): the id a launch returns is the id of the session the
\* engine started for that request: for launch_child_debug a session whose
\* parent is parentSessionId, for launch_debug a session without parent,
\* whatever other sessions start meanwhile.
C33_LaunchReturnsOwnSession ==
  (/\ lastResult.call.tool \in LaunchTools
   /\ lastResult.call.calledStart
   /\ ~lastResult.isError)
  => /\ lastResult.value \in SessionIds
     /\ engine[lastResult.value].parent =
          (IF lastResult.call.tool = "launch_child_debug"
           THEN lastResult.call.parentSessionId
           ELSE Null)

C40_FinishedLaunchLeavesNothing ==
  \A c \in Calls :
    pc[c] = "done" => /\ ~waiter[c].listening
                      /\ waiter[c].timer /= "armed"

\* ------------------------------------------------------------- liveness
\* The launches and the calls queued behind them, with the tools whose body
\* has no await of its own (set_breakpoint) standing for the calls behind:
\* the same actions as Next without the tools that wait for an answer of
\* the engine, which may never come.
LaunchNext ==
  \/ \E c \in Calls : ToolCall(c) /\ UNCHANGED xvars
  \/ \E c \in Calls : LaunchDebug(c) /\ UNCHANGED xvars
  \/ \E c \in Calls : LaunchChildDebug(c) /\ UNCHANGED xvars
  \/ \E c \in Calls, success \in BOOLEAN : StartDebuggingReturn(c, success) /\ UNCHANGED xvars
  \/ \E c \in Calls : LaunchResume(c) /\ UNCHANGED xvars
  \/ \E c \in Calls : TimerFire(c) /\ UNCHANGED xvars
  \/ \E c \in Calls : SetBreakpoint(c) /\ UNCHANGED xvars
  \/ \E s \in SessionIds, p \in SessionIds \cup {Null} : OnDidStartDebugSession(s, p) /\ UNCHANGED xvars
  \/ \E s \in SessionIds : OnDidTerminateDebugSession(s) /\ UNCHANGED xvars

\* A step of the program itself: the event loop runs a continuation that
\* is ready or fires a timer that is armed, or startDebugging returns.
Step(c) ==
  /\ \/ LaunchDebug(c)
     \/ LaunchChildDebug(c)
     \/ SetBreakpoint(c)
     \/ \E success \in BOOLEAN : StartDebuggingReturn(c, success)
     \/ LaunchResume(c)
     \/ TimerFire(c)
  /\ UNCHANGED xvars

\* The program does not stop while it has a step to take.  Nothing is
\* assumed about the engine ever starting a session.
Fairness == WF_vars(\E c \in Calls : Step(c))

LaunchSpec == Init /\ [][LaunchNext]_vars /\ Fairness

\* C9: a launch never holds the serializer forever waiting for a start
\* event: once startDebugging has returned and the launch awaits the
\* session, the call eventually finishes and releases the gate, and every
\* call queued behind it eventually gets the gate and runs.
C9_LaunchEventuallyEnds ==
  \A c \in Calls :
    /\ (pc[c] = "awaitSession") ~> (pc[c] = "done")
    /\ (pc[c] = "queued") ~> Started(c)

\* C9 witness: a launch timed out with no start event and the call queued
\* behind it was passed the gate.
C9_Witness ==
  /\ lastResult.call.tool \in LaunchTools
  /\ lastResult.error = "LaunchTimeout"
  /\ lastResult.waiter.session = Null
  /\ \E d \in Calls : d > lastResult.id /\ pc[d] = "granted"

\* ---------------------------------------------------- session resolution
\* C10 (as claimed): every tool with an optional sessionId resolves its
\* target in its first segment: an explicit sessionId that is not tracked
\* ends the call with the session-not-found error and no request; with no
\* sessionId the request goes to the engine's active session; with no
\* sessionId and no active session the call ends with the
\* no-active-session error.
C10_SessionResolution ==
  [][\A c \in Calls :
       (FirstSegment(c) /\ StepRec(c).tool \in SessionTargetTools) =>
         LET sid == StepRec(c).sessionId
         IN /\ (sid /= Null /\ ~Has(sessions, sid)) =>
                 /\ pc'[c] = "done"
                 /\ lastResult'.error = "SessionNotFound"
                 /\ ~lastResult'.call.requested
            /\ (sid = Null /\ active /= Null) =>
                 /\ pc'[c] = "engineRequest"
                 /\ call'[c].requested
                 /\ call'[c].target = active
            /\ (sid = Null /\ active = Null) =>
                 /\ pc'[c] = "done"
                 /\ lastResult'.error = "NoActiveSession"]_vars

\* ------------------------------------------------------ execution control
\* C11 (as claimed): an execution tool called with an explicit tracked
\* sessionId S sends its execution-control action to session S, whichever
\* session the engine has active; no other session is acted on.
C11_ExplicitSessionControlled ==
  [][\A c \in Calls :
       (/\ FirstSegment(c)
        /\ StepRec(c).tool \in ExecutionTools
        /\ StepRec(c).sessionId /= Null
        /\ Has(sessions, StepRec(c).sessionId))
       => /\ pc'[c] = "engineRequest"
          /\ call'[c].requested
          /\ call'[c].target = call'[c].sessionId]_vars

C26_EventsKeepBreakpoints ==
  [][/\ engine' /= engine => breakpoints' = breakpoints
     /\ breakpoints' /= breakpoints =>
          \E c \in Calls :
            FirstSegment(c) /\ StepRec(c).tool = "set_breakpoint"]_vars

\* C26 witness: a breakpoint is set, one session has terminated and
\* another is running and tracked.
C26_Witness ==
  /\ breakpoints /= <<>>
  /\ \E s, t \in SessionIds :
       /\ engine[s].status = "terminated"
       /\ engine[t].status = "running"
       /\ Has(sessions, t)

\* ------------------------------------------- events and the serializer
\* C28: a start or termination event is applied to the registry in the
\* step in which it is delivered, whether or not a tool call holds the
\* gate: the started session is tracked with its parent, the terminated
\* one is gone.
C28_EventsNotGated ==
  [][\A s \in SessionIds :
       /\ (engine[s].status = "none" /\ engine'[s].status = "running") =>
            /\ Has(sessions', s)
            /\ Get(sessions', s).parent = engine'[s].parent
       /\ (engine[s].status = "running" /\ engine'[s].status = "terminated") =>
            ~Has(sessions', s)]_vars

\* C28 witness: a body is suspended on the engine's reply, holding the
\* gate, and the session it resolved has terminated and is not tracked.
C28_Witness ==
  \E c \in Calls :
    /\ pc[c] = "engineRequest"
    /\ locked
    /\ call[c].session /= Null
    /\ engine[call[c].session].status = "terminated"
    /\ ~Has(sessions, call[c].session)

\* C29: the registry tracks each id once, tracks no session whose
\* termination was processed, tracks every session from the step that
\* processes its start, and loses or gains no id in any other step, tool
\* calls included.
C29_TrackedIsStartedNotTerminated ==
  /\ [](/\ Cardinality(TrackedIds(sessions)) = Len(sessions)
        /\ \A s \in TrackedIds(sessions) : engine[s].status = "running")
  /\ [][\A s \in SessionIds :
          /\ (engine[s].status = "none" /\ engine'[s].status = "running")
               => Has(sessions', s)
          /\ engine'[s].status = engine[s].status
               => (Has(sessions', s) <=> Has(sessions, s))]_vars

\* C29 witness: with a call inside its body, one session has started and
\* terminated and a session started after it is tracked.
C29_Witness ==
  /\ \E c \in Calls : InBody(c)
  /\ \E s, t \in SessionIds :
       /\ engine[s].status = "terminated"
       /\ engine[t].status = "running"
       /\ TrackedIds(sessions) = {t}

\* ------------------------------------------------------- error results
\* C19 (as claimed): every failure inside a tool body comes back as a
\* structured result with isError set and the message; no handler lets
\* the error leave runExclusive as an exception.
C19_FailuresAreResults ==
  lastResult.error /= "none" => lastResult.isError /\ ~lastResult.threw

\* ===================================================================
\* The breakpoint store on its own
\* ===================================================================
\* The variables the store operations leave alone.
nonStoreVars ==
  <<sessions, engine, active, locked, queue, guard, pc, call, waiter, lastResult,
    dbg, insp, activeConnections, conn, lastPost, server, event, origin,
    yvars>>

StoreOp(op, file, line, enabled, condition, threw, error) ==
  [op |-> op, file |-> file, line |-> line, enabled |-> enabled,
   condition |-> condition, before |-> breakpoints, threw |-> threw,
   error |-> error]

\* debugManager.breakpoints.set(file, line, options)
StoreSet(file, line, condition) ==
  /\ Len(breakpoints) < MaxBreakpoints
  /\ breakpoints' = BreakpointsSet(breakpoints, file, line, condition, Undefined, Undefined)
  /\ storeOp' = StoreOp("set", file, line, TRUE, condition, FALSE, "none")
  /\ UNCHANGED nonStoreVars

\* debugManager.breakpoints.remove(file, line)
StoreRemove(file, line) ==
  /\ breakpoints' = BreakpointsRemove(breakpoints, file, line)
  /\ storeOp' = StoreOp("remove", file, line, FALSE, Undefined, FALSE, "none")
  /\ UNCHANGED nonStoreVars

\* debugManager.breakpoints.toggle(file, line, enabled)
StoreToggle(file, line, enabled) ==
  LET out == ToggleOutcome(breakpoints, file, line, enabled)
  IN /\ breakpoints' = out.bps
     /\ storeOp' = StoreOp("toggle", file, line, enabled, Undefined, out.threw, out.error)
     /\ UNCHANGED nonStoreVars

\* The breakpoints the user adds in the editor: a function breakpoint, or a
\* source breakpoint at a column, enabled or not.
UserBreakpoints ==
  {FunctionBreakpoint} \cup
  {SourceBreakpoint("/a.py", 0, 4, e, Undefined, Undefined, Undefined) : e \in BOOLEAN}

UserAddsBreakpoint(bp) ==
  /\ Len(breakpoints) < MaxBreakpoints
  /\ breakpoints' = AddBreakpoints(breakpoints, <<bp>>)
  /\ storeOp' = StoreOp("user", "none", 0, FALSE, Undefined, FALSE, "none")
  /\ UNCHANGED nonStoreVars

StoreInit == Init /\ active = Null

StoreNext ==
  \/ \E f \in StorePaths, l \in StoreLines, cnd \in Conditions : StoreSet(f, l, cnd)
  \/ \E f \in StorePaths, l \in StoreLines : StoreRemove(f, l)
  \/ \E f \in StorePaths, l \in StoreLines, e \in BOOLEAN : StoreToggle(f, l, e)
  \/ \E bp \in UserBreakpoints : UserAddsBreakpoint(bp)

StoreSpec == StoreInit /\ [][StoreNext]_vars

\* The entries getAll() shows at the location (file, 1-based line).
InfosAt(bps, file, line) ==
  SelectSeq(GetAll(bps), LAMBDA info : info.file = FsPath(file) /\ info.line = line)

\* The breakpoints that are not source breakpoints at (file, 1-based line).
Elsewhere(bps, file, line) ==
  SelectSeq(bps, LAMBDA bp : ~(/\ bp.kind = "source"
                               /\ BreakpointInfo(bp).file = FsPath(file)
                               /\ BreakpointInfo(bp).line = line))

\* C12 (as claimed): after set(F, L, options), getByFile(F) returns exactly
\* one entry with line = L.
C12_SetThenOneEntry ==
  storeOp.op = "set" =>
    Len(SelectSeq(GetByFile(breakpoints, storeOp.file),
                  LAMBDA info : info.line = storeOp.line)) = 1

C14_ToggleMissingFails ==
  (storeOp.op = "toggle" /\ InfosAt(storeOp.before, storeOp.file, storeOp.line) = <<>>) =>
    /\ storeOp.threw
    /\ storeOp.error = "BreakpointNotFound"
    /\ breakpoints = storeOp.before

\* C14 witness: a toggle failed for a line of a file that has a breakpoint
\* on another line.
C14_Witness ==
  /\ storeOp.op = "toggle"
  /\ storeOp.threw
  /\ GetByFile(storeOp.before, storeOp.file) /= <<>>

\* C15: remove(F, L) succeeds and deletes every breakpoint at exactly
\* (F, 1-based L) and nothing else; when nothing matches the list is
\* unchanged.
C15_RemoveExact ==
  storeOp.op = "remove" =>
    /\ ~storeOp.threw
    /\ InfosAt(breakpoints, storeOp.file, storeOp.line) = <<>>
    /\ breakpoints = Elsewhere(storeOp.before, storeOp.file, storeOp.line)
    /\ InfosAt(storeOp.before, storeOp.file, storeOp.line) = <<>> =>
         breakpoints = storeOp.before

\* C15 witness: a remove deleted a breakpoint and left one on another line
\* of the same file.
C15_Witness ==
  /\ storeOp.op = "remove"
  /\ InfosAt(storeOp.before, storeOp.file, storeOp.line) /= <<>>
  /\ GetByFile(breakpoints, storeOp.file) /= <<>>

\* ===================================================================
\* Inspection calls on a resolved session
\* ===================================================================
nonInspVars ==
  <<sessions, engine, active, breakpoints, locked, queue, guard, pc, call,
    waiter, lastResult, storeOp, activeConnections, conn, lastPost, server,
    event, origin,
    yvars>>

FrameTools == {"evaluate_expression", "get_variables"}

Request(command, arg) == [command |-> command, arg |-> arg]

InspDone(isError, error, shown) ==
  insp' = [insp EXCEPT !.pc = "done", !.isError = isError, !.error = error,
                       !.shown = shown]

\* catch (error) { return createErrorResult(error) } of the handler.
InspError(error) == InspDone(TRUE, error, <<>>)

\* The tool is called without threadId and the handler has resolved its
\* session, whose debuggee is in any of the states.  Without a frameId the
\* first request of all three tools is "threads"; with one,
\* evaluateExpression goes to "evaluate" and getScopes to "scopes".
InspStart(tool, frameId, d) ==
  /\ insp.pc = "idle"
  /\ tool = "get_current_location" => frameId = Null
  /\ dbg' = d
  /\ insp' =
       IF NeedsFrameResolution(frameId)
       THEN [NoInspection EXCEPT !.tool = tool, !.pc = "threads",
                                 !.frameArg = frameId,
                                 !.requests = <<Request("threads", Null)>>]
       ELSE LET command == IF tool = "evaluate_expression" THEN "evaluate"
                           ELSE "scopes"
            IN [NoInspection EXCEPT !.tool = tool, !.pc = command,
                                    !.frameArg = frameId, !.frameId = frameId,
                                    !.requests = <<Request(command, frameId)>>]
  /\ UNCHANGED nonInspVars

\* The threads request returns or throws.
\*  - getCurrentLocation returns [] on no threads and on any error, and the
\*    get_current_location handler turns [] into its error;
\*  - getCurrentFrameId throws on no threads; evaluateExpression rethrows
\*    what it catches, getScopes catches it and returns [], which
\*    get_variables shows as an empty object.
ThreadsReply ==
  /\ insp.pc = "threads"
  /\ LET empty == dbg.threadsQuery = "ok" /\ Len(dbg.threads) = 0
         first == IF insp.tool = "get_current_location" THEN 1
                  ELSE FallbackThread(dbg.threads)
     IN IF dbg.threadsQuery = "fails" \/ empty
        THEN CASE insp.tool = "get_current_location" -> InspError("NoThreadsPaused")
               [] insp.tool = "evaluate_expression" ->
                    InspError(IF empty THEN "NoThreadsFound" ELSE "EngineError")
               [] insp.tool = "get_variables" -> InspDone(FALSE, "none", <<>>)
        ELSE insp' = [insp EXCEPT !.pc = "stackTrace", !.i = first,
                                  !.requests = Append(@, Request("stackTrace", first))]
  /\ UNCHANGED <<dbg, nonInspVars>>

\* The stackTrace request for thread insp.i returns or throws.
StackTraceReply ==
  /\ insp.pc = "stackTrace"
  /\ LET st == dbg.threads[insp.i]
     IN CASE insp.tool = "get_current_location" ->
               LET r == LocationsAfterThread(insp.locations, st, insp.i)
               IN IF r.abort THEN InspError("NoThreadsPaused")
                  ELSE IF insp.i < Len(dbg.threads)
                  THEN insp' = [insp EXCEPT !.locations = r.locations,
                                            !.i = @ + 1,
                                            !.requests = Append(@, Request("stackTrace", insp.i + 1))]
                  ELSE IF r.locations = <<>>
                  THEN insp' = [insp EXCEPT !.pc = "done", !.isError = TRUE,
                                            !.error = "NoThreadsPaused"]
                  ELSE insp' = [insp EXCEPT !.pc = "done", !.locations = r.locations,
                                            !.shown = r.locations]
          [] insp.tool = "evaluate_expression" ->
               IF st = "fails" THEN InspError("EngineError")
               ELSE IF ~HasFrames(st) THEN InspError("NoStackFrames")
               ELSE insp' = [insp EXCEPT !.pc = "evaluate",
                                         !.frameId = FrameIdOf(insp.i),
                                         !.requests = Append(@, Request("evaluate", FrameIdOf(insp.i)))]
          [] insp.tool = "get_variables" ->
               IF ~HasFrames(st) THEN InspDone(FALSE, "none", <<>>)
               ELSE insp' = [insp EXCEPT !.pc = "scopes",
                                         !.frameId = FrameIdOf(insp.i),
                                         !.requests = Append(@, Request("scopes", FrameIdOf(insp.i)))]
  /\ UNCHANGED <<dbg, nonInspVars>>

\* The evaluate or scopes request returns or throws: evaluateExpression
\* rethrows; getScopes returns [] and getVariables [] for what throws.
FinalReply(ok) ==
  /\ insp.pc \in {"evaluate", "scopes"}
  /\ IF insp.pc = "evaluate"
     THEN IF ok THEN InspDone(FALSE, "none", <<insp.frameId>>)
          ELSE InspError("EngineError")
     ELSE InspDone(FALSE, "none", IF ok THEN <<insp.frameId>> ELSE <<>>)
  /\ UNCHANGED <<dbg, nonInspVars>>

\* The result was delivered; the next call may come.
InspReturn ==
  /\ insp.pc = "done"
  /\ insp' = NoInspection
  /\ dbg' = NoDebuggee
  /\ UNCHANGED nonInspVars

InspInit == Init /\ active = Null

InspNext ==
  \/ \E tool \in FrameTools \cup {"get_current_location"},
        frameId \in FrameIdArgs, d \in Debuggees :
       InspStart(tool, frameId, d)
  \/ ThreadsReply
  \/ StackTraceReply
  \/ \E ok \in BOOLEAN : FinalReply(ok)
  \/ InspReturn

InspSpec == InspInit /\ [][InspNext]_vars

\* The positions of the threads in a state of st.
ThreadsIn(st) == {i \in 1..Len(dbg.threads) : dbg.threads[i] \in st}

RequestsOf(command) ==
  SelectSeq(insp.requests, LAMBDA r : r.command = command)

C17_AnyPausedThreadEvaluates ==
  (/\ insp.pc \in {"evaluate", "done"}
   /\ insp.tool = "evaluate_expression"
   /\ insp.frameArg = Null
   /\ dbg.threadsQuery = "ok"
   /\ ThreadsIn({"fails"}) = {})
  => IF ThreadsIn({"paused", "nopath"}) /= {}
     THEN /\ Len(RequestsOf("evaluate")) = 1
          /\ \E i \in ThreadsIn({"paused", "nopath"}) :
               RequestsOf("evaluate")[1].arg = FrameIdOf(i)
     ELSE /\ insp.isError
          /\ insp.error \in NoPausedThreadErrors
          /\ RequestsOf("evaluate") = <<>>

\* C17 (amended): evaluate_expression without frameId and threadId issues
\* one evaluate request, with the top frame id of the first reported
\* thread, when that thread is paused; when the session reports no threads
\* or its first reported thread has no stack frames (whatever the other
\* threads do) it fails with a no-paused-thread error and issues no
\* evaluate request.
C17_FirstThreadEvaluates ==
  (/\ insp.pc \in {"evaluate", "done"}
   /\ insp.tool = "evaluate_expression"
   /\ insp.frameArg = Null
   /\ dbg.threadsQuery = "ok")
  => /\ (Len(dbg.threads) > 0 /\ HasFrames(dbg.threads[1])) =>
          /\ RequestsOf("evaluate") = <<Request("evaluate", FrameIdOf(1))>>
          /\ insp.isError => insp.error = "EngineError"
     /\ (Len(dbg.threads) = 0 \/ dbg.threads[1] = "noframes") =>
          /\ insp.pc = "done"
          /\ insp.isError
          /\ insp.error \in NoPausedThreadErrors
          /\ RequestsOf("evaluate") = <<>>

\* C17 witness: the first thread runs, the second is paused, and the call
\* failed with the no-stack-frames error.
C17_Witness ==
  /\ insp.pc = "done"
  /\ insp.tool = "evaluate_expression"
  /\ dbg.threadsQuery = "ok"
  /\ dbg.threads = <<"noframes", "paused">>
  /\ insp.error = "NoStackFrames"

\* C18 (as claimed): evaluate_expression and get_variables return an error
\* result, never a success, when frame resolution fails because the session
\* reports no threads or the thread has no stack frames.
C18_ResolutionFailureIsError ==
  (/\ insp.pc = "done"
   /\ insp.tool \in FrameTools
   /\ insp.frameArg = Null
   /\ dbg.threadsQuery = "ok"
   /\ (Len(dbg.threads) = 0 \/ dbg.threads[1] = "noframes"))
  => /\ insp.isError
     /\ insp.error \in NoPausedThreadErrors

\* C30: with an explicit frameId, 0 included, evaluate_expression and
\* get_variables issue no threads and no stackTrace request, and their one
\* request, evaluate or scopes, carries the frameId as given.
C30_ExplicitFrameUsedAsIs ==
  (insp.tool \in FrameTools /\ insp.frameArg /= Null) =>
    /\ RequestsOf("threads") = <<>>
    /\ RequestsOf("stackTrace") = <<>>
    /\ insp.requests =
         <<Request(IF insp.tool = "evaluate_expression" THEN "evaluate"
                   ELSE "scopes", insp.frameArg)>>

\* C30 witness: evaluate_expression with frameId 0 returned its value on a
\* session whose threads have no frames.
C30_Witness ==
  /\ insp.pc = "done"
  /\ insp.tool = "evaluate_expression"
  /\ insp.frameArg = 0
  /\ ~insp.isError
  /\ insp.shown = <<0>>
  /\ dbg.threads = <<"noframes">>

\* ===================================================================
\* The transport server's connection map on its own
\* ===================================================================
nonTransportVars ==
  <<sessions, engine, active, breakpoints, locked, queue, guard, pc, call,
    waiter, lastResult, storeOp, dbg, insp, event, origin,
    yvars>>

\* handleGet up to its await: the transport is created and put in the map,
\* then mcpServer.connect(transport) is awaited.
HandleGet(id) ==
  /\ server.listening
  /\ conn[id].pc = "none"
  /\ activeConnections' = activeConnections \cup {id}
  /\ conn' = [conn EXCEPT ![id] = [@ EXCEPT !.pc = "connecting",
                                            !.stream = "open"]]
  /\ UNCHANGED <<lastPost, server, nonTransportVars>>

\* After the await. connect resolved: the 'close', 'error' and 'aborted'
\* listeners are registered. connect rejected: the catch logs and, when no
\* headers went out yet, answers 500 and ends the response; the map is not
\* touched and no listener is registered.
ConnectReturn(id, ok, headersSent) ==
  /\ conn[id].pc = "connecting"
  /\ conn' = [conn EXCEPT ![id] =
       IF ok
       THEN [@ EXCEPT !.pc = "open", !.listening = TRUE]
       ELSE [@ EXCEPT !.pc = "failed",
                      !.stream = IF headersSent THEN @ ELSE "closed"]]
  /\ UNCHANGED <<activeConnections, lastPost, server, nonTransportVars>>

\* Listeners that also end the tool calls of the connection.
StreamEvent_AbortsCalls(id, kind) ==
  /\ conn[id].pc /= "none"
  /\ conn[id].events < MaxStreamEvents
  /\ kind = "close" => conn[id].events = 0 \/ conn[id].stream = "closed"
  /\ activeConnections' =
       IF conn[id].listening
       THEN DeleteConnection(activeConnections, id)
       ELSE activeConnections
  /\ conn' = [conn EXCEPT ![id] = [@ EXCEPT !.stream = "closed",
                                            !.events = @ + 1]]
  /\ pc' = [c \in Calls |->
              IF origin[c] = id /\ InBody(c) THEN "done" ELSE pc[c]]
  /\ UNCHANGED <<lastPost, server, sessions, engine, active, breakpoints, locked,
                 queue, guard, call, waiter, lastResult, storeOp, dbg, insp,
                 event, origin,
    yvars>>

\* The response closes or errors, or the request is aborted. A listener
\* runs only if it was registered before the event was emitted.
StreamEvent(id, kind) ==
  /\ conn[id].pc /= "none"
  /\ conn[id].events < MaxStreamEvents
  /\ kind = "close" => conn[id].events = 0 \/ conn[id].stream = "closed"
  /\ activeConnections' =
       IF conn[id].listening
       THEN DeleteConnection(activeConnections, id)
       ELSE activeConnections
  /\ conn' = [conn EXCEPT ![id] = [@ EXCEPT !.stream = "closed",
                                            !.events = @ + 1]]
  /\ UNCHANGED <<lastPost, server, nonTransportVars>>

\* handlePost: the sessionId of the query selects the transport.
HandlePost(sid, throws) ==
  /\ server.listening
  /\ lastPost' =
       [sessionId |-> sid, status |-> PostStatus(activeConnections, sid, throws)]
  /\ UNCHANGED <<activeConnections, conn, server, nonTransportVars>>

\* start(): httpServer.listen and its callback.
Start ==
  /\ ~server.isRunning
  /\ server.stop \in {"idle", "done"}
  /\ server' = [NoServer EXCEPT !.isRunning = TRUE, !.listening = TRUE]
  /\ UNCHANGED <<activeConnections, conn, lastPost, nonTransportVars>>

\* stop() up to its await: transport.close() is called for the connections
\* of the map, each with its own catch.  close() ends the response of a
\* transport that was started; failing: the connections whose close()
\* rejects.
StopBegin(failing) ==
  /\ server.isRunning
  /\ server.stop = "idle"
  /\ LET attempted == CloseAttempts(activeConnections, failing)
     IN /\ server' = [server EXCEPT !.stop = "closing",
                                    !.tracked = activeConnections,
                                    !.attempted = attempted,
                                    !.failed = failing \cap attempted]
        /\ conn' = [id \in ConnIds |->
                     IF id \in attempted \ failing /\ conn[id].pc /= "connecting"
                     THEN [conn[id] EXCEPT !.stream = "closed"]
                     ELSE conn[id]]
  /\ UNCHANGED <<activeConnections, lastPost, nonTransportVars>>

\* After await Promise.allSettled: the map is cleared and
\* httpServer.close() releases the port.
StopSettled ==
  /\ server.stop = "closing"
  /\ activeConnections' = {}
  /\ server' = [server EXCEPT !.stop = "releasing", !.listening = FALSE]
  /\ UNCHANGED <<conn, lastPost, nonTransportVars>>

\* The callback of httpServer.close(), called once every connection of
\* the server has ended.
StopClosed ==
  /\ server.stop = "releasing"
  /\ \A id \in ConnIds : conn[id].stream /= "open"
  /\ server' = [server EXCEPT !.stop = "done", !.isRunning = FALSE]
  /\ UNCHANGED <<activeConnections, conn, lastPost, nonTransportVars>>

TransportInit == Init /\ active = Null

TransportNext ==
  \/ \E id \in ConnIds : HandleGet(id)
  \/ \E id \in ConnIds, ok \in BOOLEAN, headersSent \in BOOLEAN :
       ConnectReturn(id, ok, headersSent)
  \/ \E id \in ConnIds, kind \in StreamEvents : StreamEvent(id, kind)
  \/ \E sid \in ConnIds \cup {Null}, throws \in BOOLEAN : HandlePost(sid, throws)
  \/ Start
  \/ \E failing \in SUBSET activeConnections : StopBegin(failing)
  \/ StopSettled
  \/ StopClosed

TransportSpec == TransportInit /\ [][TransportNext]_vars

\* C20 (as claimed): a connection is in the map from the moment its GET is
\* handled, so before any message for its id can be routed, and a
\* connection whose stream has closed, errored or been aborted is not in
\* the map, at whatever point of its lifetime that happened; a further
\* removal changes nothing.  (Stated for a server that is not shutting
\* down.)
C20_MapHoldsLiveConnections ==
  server.stop = "idle" =>
    \A id \in ConnIds :
      /\ conn[id].stream = "open" => id \in activeConnections
      /\ conn[id].stream = "closed" => id \notin activeConnections

C22_StopClosesAllThenReleases ==
  /\ server.stop /= "idle" => server.attempted = server.tracked
  /\ server.stop = "closing" => server.listening
  /\ server.stop = "done" => activeConnections = {} /\ ~server.isRunning

\* C22 witness: stop() completed although closing one of two tracked
\* connections failed.
C22_Witness ==
  /\ server.stop = "done"
  /\ server.failed /= {}
  /\ server.attempted \ server.failed /= {}

\* ------------------------------------------------------------ shutdown
\* The steps the server takes by itself: the continuation of an await that
\* has settled runs, and the callback of httpServer.close() is called once
\* no connection is left.  When a client opens or closes a connection is
\* up to the client.
ServerStep ==
  \/ \E id \in ConnIds, ok \in BOOLEAN, headersSent \in BOOLEAN :
       ConnectReturn(id, ok, headersSent)
  \/ StopSettled
  \/ StopClosed

ShutdownSpec == TransportInit /\ [][TransportNext]_vars /\ WF_vars(ServerStep)

\* C37 (as claimed): a stop() of a running server eventually completes,
\* with isServerRunning() false and no connection left open, also when a
\* connection is accepted while the shutdown is in progress.
C37_StopEventuallyCompletes ==
  (server.stop = "closing") ~>
    (/\ server.stop = "done"
     /\ ~server.isRunning
     /\ \A id \in ConnIds : conn[id].stream /= "open")

\* ===================================================================
\* The registry under the engine's session events alone
\* ===================================================================
nonRegistryVars ==
  <<breakpoints, locked, queue, guard, pc, call, lastResult, storeOp, dbg, insp,
    activeConnections, conn, lastPost, server, origin,
    yvars>>

SessionEvent(kind, id, parent) ==
  [kind |-> kind, id |-> id, parent |-> parent, known |-> Has(sessions, id),
   seq |-> 1 - event.seq]

\* The start event of a new session.
StartEvent(s, p) ==
  /\ OnDidStartDebugSession(s, p)
  /\ event' = SessionEvent("start", s, p)
  /\ UNCHANGED <<storeOp, dbg, insp, activeConnections, conn, lastPost, server,
                 origin, yvars>>

\* The start event of a session the registry tracks already (the
\* constructor tracked the active session before the engine announced it):
\* the subscriber calls addSession again.
StartEventForTracked(s) ==
  /\ engine[s].status = "running"
  /\ Has(sessions, s)
  /\ sessions' = AddSession(sessions, s, engine[s].parent)
  /\ event' = SessionEvent("start", s, engine[s].parent)
  /\ UNCHANGED <<engine, active, waiter, nonRegistryVars>>

\* The termination event of a running session.
TerminateEvent(s) ==
  /\ OnDidTerminateDebugSession(s)
  /\ event' = SessionEvent("terminate", s, engine[s].parent)
  /\ UNCHANGED <<storeOp, dbg, insp, activeConnections, conn, lastPost, server,
                 origin, yvars>>

\* Sessions.updateSessionState(id, state), for any id; its one caller,
\* launch, passes "running".
StateUpdate(id, st) ==
  /\ sessions' = UpdateSessionState(sessions, id, st)
  /\ UNCHANGED <<engine, active, waiter, event, nonRegistryVars>>

\* The engine creates session s with parent p; its start event is not
\* delivered yet.  A child can be created as soon as its parent exists.
EngineCreates(s, p) ==
  /\ engine[s].status = "none"
  /\ IF p = Null THEN TRUE ELSE engine[p].status \in {"starting", "running"}
  /\ engine' = [engine EXCEPT ![s] = [status |-> "starting", parent |-> p]]
  /\ UNCHANGED <<sessions, active, waiter, event, nonRegistryVars>>

\* The start event of a session created earlier reaches the registry's
\* subscriber; the events of a parent and of its child come in either order.
StartEventOfCreated(s) ==
  /\ engine[s].status = "starting"
  /\ engine' = [engine EXCEPT ![s].status = "running"]
  /\ sessions' = AddSession(sessions, s, engine[s].parent)
  /\ event' = SessionEvent("start", s, engine[s].parent)
  /\ active' \in {s} \cup ({active} \ {Null})
  /\ UNCHANGED <<waiter, nonRegistryVars>>

RegistryNext ==
  \/ \E s \in SessionIds, p \in SessionIds \cup {Null} : StartEvent(s, p)
  \/ \E s \in SessionIds, p \in SessionIds \cup {Null} : EngineCreates(s, p)
  \/ \E s \in SessionIds : StartEventOfCreated(s)
  \/ \E s \in SessionIds : StartEventForTracked(s)
  \/ \E s \in SessionIds : TerminateEvent(s)
  \/ \E id \in SessionIds : StateUpdate(id, "running")

RegistrySpec == Init /\ [][RegistryNext]_vars

\* The entries of the registry other than those of the ids in `ids`.
EntriesExcept(m, ids) == SelectSeq(m, LAMBDA n : n.id \notin ids)

\* C24: a start event for an untracked id inserts one entry with the
\* engine-supplied parent, state running and no children, and appends the
\* id to the children of the parent when the parent is tracked, leaving
\* every other entry as it was; a start event for a tracked id changes
\* nothing in the registry.
C24_StartEventInsertsOnce ==
  [][(event' /= event /\ event'.kind = "start") =>
       LET s == event'.id
           p == event'.parent
       IN IF Has(sessions, s)
          THEN sessions' = sessions
          ELSE /\ Len(sessions') = Len(sessions) + 1
               /\ Get(sessions', s) =
                    [id |-> s, parent |-> p, children |-> <<>>, state |-> "running"]
               /\ EntriesExcept(sessions', {s, p}) = EntriesExcept(sessions, {s, p})
               /\ (p /= Null /\ Has(sessions, p)) =>
                    Get(sessions', p) =
                      [Get(sessions, p) EXCEPT !.children = Append(@, s)]]_vars

\* C24 witness: the start event of a tracked child has been handled again;
\* its parent lists it once.
C24_Witness ==
  /\ event.kind = "start"
  /\ event.parent /= Null
  /\ Has(sessions, event.parent)
  /\ Get(sessions, event.parent).children = <<event.id>>
  /\ event.known
  /\ Len(sessions) = 2

\* C25: the termination event of a session P removes P alone: every other
\* tracked session, the children of P among them, stays tracked with its
\* state and its recorded parent id unchanged.
C25_TerminationRemovesOnlySelf ==
  [][(event' /= event /\ event'.kind = "terminate") =>
       LET P == event'.id
       IN /\ ~Has(sessions', P)
          /\ \A id \in TrackedIds(sessions) \ {P} :
               /\ Has(sessions', id)
               /\ Get(sessions', id).state = Get(sessions, id).state
               /\ Get(sessions', id).parent = Get(sessions, id).parent]_vars

\* C25 witness: a tracked parent has terminated and its child is still
\* tracked, with the terminated session as its recorded parent.
C25_Witness ==
  /\ event.kind = "terminate"
  /\ event.known
  /\ \E id \in TrackedIds(sessions) : Get(sessions, id).parent = event.id

\* The number of times x occurs in seq.
Occurrences(seq, x) == Cardinality({i \in 1..Len(seq) : seq[i] = x})

\* C34: for every tracked session P and every id c in P's children list, c
\* is tracked, the recorded parent of c is P, and c occurs in the list
\* exactly once.
C34_ChildrenListSound ==
  \A P \in TrackedIds(sessions) :
    LET ch == Get(sessions, P).children
    IN \A i \in 1..Len(ch) :
         /\ Has(sessions, ch[i])
         /\ Get(sessions, ch[i]).parent = P
         /\ Occurrences(ch, ch[i]) = 1

\* C34 witness: the start event of a tracked child has been delivered a
\* second time and its tracked parent lists it.
C34_Witness ==
  /\ event.kind = "start"
  /\ event.known
  /\ event.parent /= Null
  /\ Has(sessions, event.parent)
  /\ event.id \in Range(Get(sessions, event.parent).children)
  /\ Get(sessions, event.id).parent = event.parent

\* C35 (as claimed): every tracked session whose recorded parent is tracked
\* is in that parent's children list, whatever the order in which the start
\* events of the two were delivered.
C35_TrackedParentListsChild ==
  \A c \in TrackedIds(sessions) :
    LET P == Get(sessions, c).parent
    IN (Truthy(P) /\ Has(sessions, P)) =>
         c \in Range(Get(sessions, P).children)

\* The number of nodes of a tree, and of a forest.
RECURSIVE NodeCount(_)
NodeCount(t) ==
  LET RECURSIVE Sum(_)
      Sum(k) == IF k = 0 THEN 0 ELSE NodeCount(t.children[k]) + Sum(k - 1)
  IN 1 + Sum(Len(t.children))

RECURSIVE ForestCount(_, _)
ForestCount(roots, k) ==
  IF k = 0 THEN 0 ELSE NodeCount(roots[k]) + ForestCount(roots, k - 1)

\* C36 (as claimed): getSessionTree() succeeds, every tracked session is a
\* node of the returned forest exactly once, and the number of nodes is
\* totalSessions, also after a parent terminated before its children.
C36_TreeShowsEveryTracked ==
  LET tree == GetSessionTree(sessions)
  IN /\ ~tree.threw
     /\ TreeIds(tree) = TrackedIds(sessions)
     /\ ForestCount(tree.roots, Len(tree.roots)) = tree.totalSessions

\* ===================================================================
\* Tool calls and the connections that carry them
\* ===================================================================
\* A POST of a tracked connection is routed to its transport and the tool
\* handler it names is called.
PostToolCall(c, id) ==
  /\ server.listening
  /\ conn[id].pc /= "none"
  /\ PostStatus(activeConnections, id, FALSE) = "routed"
  /\ ToolCall(c)
  /\ origin' = [origin EXCEPT ![c] = id]
  /\ lastPost' = [sessionId |-> id, status |-> "routed"]
  /\ UNCHANGED <<storeOp, dbg, insp, activeConnections, conn, server, event,
                 yvars>>

\* The evaluate_expression handler, the tool of the calls followed here.
EvaluateExpression(c) ==
  /\ pc[c] \in EntryPcs
  /\ \E sid \in SessionIdArgs : InspectionBody(c, "evaluate_expression", sid)

ConnNext ==
  \/ Start
  \/ \E id \in ConnIds : HandleGet(id)
  \/ \E id \in ConnIds, ok \in BOOLEAN, headersSent \in BOOLEAN :
       ConnectReturn(id, ok, headersSent)
  \/ \E id \in ConnIds, kind \in StreamEvents : StreamEvent(id, kind)
  \/ \E c \in Calls, id \in ConnIds : PostToolCall(c, id)
  \/ \E c \in Calls : EvaluateExpression(c) /\ UNCHANGED xvars
  \/ \E c \in Calls : EngineReply(c) /\ UNCHANGED xvars

ConnSpec == Init /\ [][ConnNext]_vars

\* C27: a close, error or abort of a connection changes no tool call and
\* not the gate: a call of that connection that is inside its body stays
\* there, its later steps end it and release the gate, and the calls
\* queued behind it are passed the gate in their order.
C27_CloseDoesNotAbortCall ==
  /\ [][\A id \in ConnIds :
          conn'[id].events > conn[id].events =>
            UNCHANGED <<pc, call, locked, queue, guard, lastResult>>]_vars
  /\ [](/\ locked <=> Holders /= {}
        /\ queue /= <<>> => Holders /= {}
        /\ \A c \in Calls : pc[c] = "done" => \A i \in 1..Len(queue) : queue[i] /= c)

\* C27 witness: the connection of a call that awaits the engine's reply
\* inside its body has closed and left the map, and a call of another
\* connection waits behind it.
C27_Witness ==
  \E c, d \in Calls :
    /\ pc[c] = "engineRequest"
    /\ origin[c] /= Null
    /\ conn[origin[c]].stream = "closed"
    /\ origin[c] \notin activeConnections
    /\ pc[d] = "queued"
    /\ origin[d] /= origin[c]

\* ===================================================================
\* get_stack_frames on its own
\* ===================================================================
nonStackVars ==
  <<sessions, engine, active, breakpoints, locked, queue, guard, pc, call,
    waiter, lastResult, storeOp, dbg, insp, activeConnections, conn, lastPost,
    server, event, origin, life, cmd>>

\* getFrameFromActiveStackItem: the thread of the selected frame; a
\* selected thread gives NO_FRAME_ID and nothing selected gives null, and
\* the handler takes neither.
ActiveFrameThread(item) == IF item.kind = "frame" THEN item.threadId ELSE Null

StackRequest(command, session, threadId) ==
  [command |-> command, session |-> session, threadId |-> threadId]

\* The handler has resolved its session `target` (the active session when
\* no sessionId was given) and chooses the thread:
\*   let targetThreadId = args.threadId; if (!targetThreadId) { ... }
\* up to its first request.
StackStart(target, explicitSession, threadArg, item, threads, threadsOk) ==
  /\ stk.pc = "idle"
  /\ item.kind /= "none" => item.session /= Null
  /\ ~explicitSession => (item.kind = "none" \/ item.session = target)
  /\ LET call0 == [NoStackCall EXCEPT !.target = target,
                                      !.explicitSession = explicitSession,
                                      !.threadArg = threadArg, !.item = item,
                                      !.threads = threads,
                                      !.threadsOk = threadsOk]
         fromItem == ActiveFrameThread(item)
     IN stk' =
          IF Truthy(threadArg)
          THEN [call0 EXCEPT !.pc = "stackTrace", !.source = "argument",
                  !.requests = <<StackRequest("stackTrace", target, threadArg)>>]
          ELSE IF fromItem /= Null
          THEN [call0 EXCEPT !.pc = "stackTrace", !.source = "selection",
                  !.requests = <<StackRequest("stackTrace", target, fromItem)>>]
          ELSE [call0 EXCEPT !.pc = "threads",
                  !.requests = <<StackRequest("threads", target, Null)>>]
  /\ UNCHANGED nonStackVars

\* Execution.getThreads returned: the reported threads, or [] when the
\* request threw.
StackThreadsReply ==
  /\ stk.pc = "threads"
  /\ LET threads == IF stk.threadsOk THEN stk.threads ELSE <<>>
     IN stk' =
          IF threads = <<>>
          THEN [stk EXCEPT !.pc = "done", !.isError = TRUE,
                           !.error = "NoActiveThreads"]
          ELSE [stk EXCEPT !.pc = "stackTrace", !.source = "reported",
                  !.requests =
                    Append(@, StackRequest("stackTrace", stk.target, threads[1]))]
  /\ UNCHANGED nonStackVars

\* Inspection.getStackTrace returned its frames, or [] for a request that
\* threw; the handler shows them.
StackTraceDone ==
  /\ stk.pc = "stackTrace"
  /\ stk' = [stk EXCEPT !.pc = "done"]
  /\ UNCHANGED nonStackVars

StackReturn ==
  /\ stk.pc = "done"
  /\ stk' = NoStackCall
  /\ UNCHANGED nonStackVars

StackItems ==
  {NoStackItem} \cup
  [kind : {"thread", "frame"}, session : SessionIds, threadId : ThreadIds]

StackNext ==
  \/ \E target \in SessionIds, explicitSession \in BOOLEAN,
        threadArg \in ThreadIdArgs, item \in StackItems,
        threads \in ThreadLists, threadsOk \in BOOLEAN :
       StackStart(target, explicitSession, threadArg, item, threads, threadsOk)
  \/ StackThreadsReply
  \/ StackTraceDone
  \/ StackReturn

StackInit == Init /\ active = Null

StackSpec == StackInit /\ [][StackNext]_vars

StackTraceRequests ==
  SelectSeq(stk.requests, LAMBDA r : r.command = "stackTrace")

\* C31 (as claimed): get_stack_frames queries the stack of the explicit
\* threadId when one is given, 0 included; otherwise of the thread of the
\* selected frame; otherwise of the first thread the session reports; with
\* no thread reported it fails with the no-threads error and queries no
\* stack.
C31_ThreadChoiceOrder ==
  stk.pc \in {"stackTrace", "done"} =>
    LET fromItem == ActiveFrameThread(stk.item)
        chosen == IF stk.threadArg /= Null THEN stk.threadArg
                  ELSE IF fromItem /= Null THEN fromItem
                  ELSE IF stk.threadsOk /\ stk.threads /= <<>> THEN stk.threads[1]
                  ELSE Null
    IN IF chosen = Null
       THEN /\ stk.isError
            /\ stk.error = "NoActiveThreads"
            /\ StackTraceRequests = <<>>
       ELSE StackTraceRequests = <<StackRequest("stackTrace", stk.target, chosen)>>

\* C32 (as claimed): the thread of a stack query comes from the caller's
\* threadId, from the threads the target session reported, or from the
\* selection only when the selection is in the target session.
C32_ThreadBelongsToTarget ==
  stk.source = "selection" => stk.item.session = stk.target

\* ===================================================================
\* start(), stop() and the commands that call them
\* ===================================================================
nonLifeVars ==
  <<sessions, engine, active, breakpoints, locked, queue, guard, pc, call,
    waiter, lastResult, storeOp, dbg, insp, activeConnections, conn, lastPost,
    server, event, origin, stk>>

\* A start() is in progress: listen() was called and neither its callback
\* nor the 'error' listener ran yet.
StartInProgress(except) ==
  \E j \in Invocations \ {except} : cmd[j].pc = "startPending"

\* start() on server state l.  isRunning: the 'Server is already running'
\* error.  Otherwise httpServer.listen() is called: on a listening server
\* it throws ERR_SERVER_ALREADY_LISTEN inside the promise executor, which
\* rejects the promise; on a server that is binding it throws or goes
\* ahead (throws), depending on how far the first listen() got.
StartOutcome(l, throws) ==
  IF l.isRunning THEN "AlreadyRunning"
  ELSE IF l.port = "listening" \/ (l.port = "binding" /\ throws) THEN "ListenError"
  ELSE "pending"

StartLife(l, throws) ==
  IF l.isRunning THEN l
  ELSE [l EXCEPT !.listenCalls = @ + 1,
                 !.port = IF StartOutcome(l, throws) = "pending"
                          THEN "binding" ELSE @]

StartCmd(i, l, rec, throws) ==
  LET outcome == StartOutcome(l, throws)
  IN [rec EXCEPT !.pc = IF outcome = "pending" THEN "startPending" ELSE "done",
                 !.result = outcome,
                 !.calledStart = TRUE,
                 !.heldAtStart = l.isRunning \/ StartInProgress(i)]

\* activate(): the server is constructed and, with autostart configured,
\* start() is called; the commands are registered after that.
Activate(autostart) ==
  /\ ~life.activated
  /\ IF autostart
     THEN /\ life' = [StartLife(life, FALSE) EXCEPT !.activated = TRUE]
          /\ cmd' = [cmd EXCEPT ![1] =
                      StartCmd(1, life, [NoCommand EXCEPT !.kind = "auto"], FALSE)]
     ELSE /\ life' = [life EXCEPT !.activated = TRUE]
          /\ cmd' = cmd
  /\ UNCHANGED nonLifeVars

\* A command is invoked, up to its first await.  start: the 'already
\* running' message when isServerRunning(), else start().  stop: the 'not
\* running' message when not isServerRunning(), else stop() up to its
\* await.  restart: stop() when isServerRunning(), else start().
Invoke(i, kind, throws) ==
  /\ life.activated
  /\ cmd[i].pc = "idle"
  /\ life.listenCalls < MaxListenCalls
  /\ LET rec == [NoCommand EXCEPT !.kind = kind]
     IN IF kind = "start" /\ life.isRunning
        THEN /\ cmd' = [cmd EXCEPT ![i] =
                         [rec EXCEPT !.pc = "done", !.result = "AlreadyRunningMsg"]]
             /\ life' = life
        ELSE IF kind = "stop" /\ ~life.isRunning
        THEN /\ cmd' = [cmd EXCEPT ![i] =
                         [rec EXCEPT !.pc = "done", !.result = "NotRunningMsg"]]
             /\ life' = life
        ELSE IF kind = "start" \/ (kind = "restart" /\ ~life.isRunning)
        THEN /\ cmd' = [cmd EXCEPT ![i] = StartCmd(i, life, rec, throws)]
             /\ life' = StartLife(life, throws)
        ELSE /\ cmd' = [cmd EXCEPT ![i] = [rec EXCEPT !.pc = "stopClosing"]]
             /\ life' = life
  /\ UNCHANGED nonLifeVars

\* The callback of httpServer.listen(): isRunning becomes true and the
\* pending start() promises resolve.
ListenCallback ==
  /\ life.port = "binding"
  /\ life' = [life EXCEPT !.port = "listening", !.isRunning = TRUE]
  /\ cmd' = [i \in Invocations |->
               IF cmd[i].pc = "startPending"
               THEN [cmd[i] EXCEPT !.pc = "done", !.result = "started"]
               ELSE cmd[i]]
  /\ UNCHANGED nonLifeVars

\* The 'error' listener of the httpServer: the port cannot be bound and
\* the pending start() promises are rejected.
ListenFails ==
  /\ life.port = "binding"
  /\ life' = [life EXCEPT !.port = "closed", !.listenCalls = 0]
  /\ cmd' = [i \in Invocations |->
               IF cmd[i].pc = "startPending"
               THEN [cmd[i] EXCEPT !.pc = "done", !.result = "ListenError"]
               ELSE cmd[i]]
  /\ UNCHANGED nonLifeVars

\* stop() after await Promise.allSettled: httpServer.close() is called.
StopReleases(i) ==
  /\ cmd[i].pc = "stopClosing"
  /\ cmd' = [cmd EXCEPT ![i].pc = "stopReleasing"]
  /\ life' = [life EXCEPT !.port = IF @ = "listening" THEN "closed" ELSE @]
  /\ UNCHANGED nonLifeVars

\* The callback of httpServer.close(): isRunning becomes false and stop()
\* resolves; the restart command goes on with start().
StopCompletes(i, throws) ==
  /\ cmd[i].pc = "stopReleasing"
  /\ LET stopped == [life EXCEPT !.isRunning = FALSE, !.listenCalls = 0]
     IN IF cmd[i].kind = "restart"
        THEN /\ cmd' = [cmd EXCEPT ![i] = StartCmd(i, stopped, cmd[i], throws)]
             /\ life' = StartLife(stopped, throws)
        ELSE /\ cmd' = [cmd EXCEPT ![i] =
                         [@ EXCEPT !.pc = "done", !.result = "stopped"]]
             /\ life' = stopped
  /\ UNCHANGED nonLifeVars

\* The command handler returns.
CommandReturn(i) ==
  /\ cmd[i].pc = "done"
  /\ cmd' = [cmd EXCEPT ![i] = NoCommand]
  /\ life' = life
  /\ UNCHANGED nonLifeVars

LifecycleNext ==
  \/ \E autostart \in BOOLEAN : Activate(autostart)
  \/ \E i \in Invocations, kind \in CommandKinds, throws \in BOOLEAN :
       Invoke(i, kind, throws)
  \/ ListenCallback
  \/ ListenFails
  \/ \E i \in Invocations : StopReleases(i)
  \/ \E i \in Invocations, throws \in BOOLEAN : StopCompletes(i, throws)
  \/ \E i \in Invocations : CommandReturn(i)

LifecycleSpec == Init /\ [][LifecycleNext]_vars

\* C38 (as claimed): a start() called while a start has succeeded or is in
\* progress, and no stop completed since, fails with 'Server is already
\* running', and the httpServer is never asked to listen twice without a
\* completed stop in between.
C38_StartRejectedWhileStarted ==
  /\ \A i \in Invocations :
       (cmd[i].calledStart /\ cmd[i].heldAtStart) =>
         cmd[i].result = "AlreadyRunning"
  /\ life.listenCalls <= 1

====
